---- MODULE Spec2Model ----
(***************************************************************************)
(* Model of the order execution pipeline of the trading bot                *)
(* (src/services/trading_service.py) and of the chain client it calls      *)
(* (src/utils/solana_manager.py).                                          *)
(*                                                                         *)
(* The RPC handlers are coroutines: a handler runs without interruption    *)
(* from one awaited I/O call to the next, and other handlers run in        *)
(* between.  Each action below is one awaited I/O call (its effect on the  *)
(* database, the cache or the chain) followed by the handler's code up to  *)
(* its next awaited I/O call.                                              *)
(*                                                                         *)
(* Floats are scaled to integers: slippage is in percent (0.5 -> 50),      *)
(* amounts and prices are whole units.                                     *)
(***************************************************************************)
EXTENDS Integers, Sequences, FiniteSets, TLC

(***************************************************************************)
(* Bounds of the model                                                     *)
(***************************************************************************)
\* number of order ids uuid.uuid4() hands out in a run
MaxOrders == 1
\* most rows of the orders table the profit/loss computation reads
MaxHistory == 3
\* largest executed amount of a row the profit/loss computation reads
MaxQty == 1
\* most rows of the orders table a GetOrders call reads
MaxRows == 2
\* number of sniper ids uuid.uuid4() hands out in a run
MaxSnipers == 1
\* most target tokens a sniper session is given
MaxTargets == 2
\* most rows of the snipe_records table
MaxRecords == 2
\* most trades one fetch of the source wallet's activity returns
MaxBatch == 1
\* number of monitor cycles of the copy-trade task in a run
MaxCycles == 2
\* number of times the clock advances in a run
MaxTicks == 1
\* most trades one fetch returns where batches of several trades are studied
MaxFetched == 2

\* the RPC handlers that can be in flight at the same time: two are what a
\* race between a PlaceOrder and a CancelOrder, or between two CancelOrders, needs
Handlers == {"h1", "h2"}
OrderIds == 1..MaxOrders

(***************************************************************************)
(* Program constants                                                       *)
(***************************************************************************)
\* len(token_mint) != 44, len(wallet_address) != 44
AddressLen == 44
\* order.slippage > 0.5, in percent
MaxSlippagePct == 50
\* proto enum values used by _get_orders
PENDING == "PENDING"
EXECUTED == "EXECUTED"
FAILED == "FAILED"
CANCELLED == "CANCELLED"
BUY == "BUY"
SELL == "SELL"

ABSENT == "ABSENT"

\* no row in the orders table, no cache key, no Order message, no response yet
NoRow == [status |-> ABSENT]
NoEntry == [status |-> ABSENT]
NoOrder == [order_id |-> 0, status |-> ABSENT]
NoResponse == [success |-> FALSE, message |-> << >>, order_id |-> 0, signature |-> ""]

(***************************************************************************)
(* Addresses.  An address is a string; the samples are named and           *)
(* AddressText gives the characters of each.                               *)
(***************************************************************************)
Base58Alphabet ==
    {"1","2","3","4","5","6","7","8","9",
     "A","B","C","D","E","F","G","H","J","K","L","M","N","P","Q","R","S","T",
     "U","V","W","X","Y","Z",
     "a","b","c","d","e","f","g","h","i","j","k","m","n","o","p","q","r","s",
     "t","u","v","w","x","y","z"}

Repeat(c, n) == [i \in 1..n |-> c]

AddressSamples == {"addr_ok", "addr_short", "addr_long", "addr_zero_char"}

AddressText(a) ==
    CASE a = "addr_ok"        -> Repeat("S", 1) \o Repeat("o", AddressLen - 1)
      [] a = "addr_ok_2"      -> Repeat("T", 1) \o Repeat("o", AddressLen - 1)
      [] a = "addr_short"     -> Repeat("S", AddressLen - 1)
      [] a = "addr_long"      -> Repeat("S", AddressLen + 1)
      [] a = "addr_zero_char" -> Repeat("S", AddressLen - 1) \o <<"0">>

\* base58.b58decode raises on a character outside the alphabet
b58decode_ok(text) == \A i \in 1..Len(text) : text[i] \in Base58Alphabet

_validate_token_mint(token_mint) ==
    IF Len(AddressText(token_mint)) # AddressLen
    THEN FALSE
    ELSE b58decode_ok(AddressText(token_mint))

_validate_wallet_address(wallet_address) ==
    IF Len(AddressText(wallet_address)) # AddressLen
    THEN FALSE
    ELSE b58decode_ok(AddressText(wallet_address))

\* a _validate_order that forgets the upper slippage bound
_validate_order_no_upper_bound(o) ==
    IF ~_validate_token_mint(o.token_mint)
    THEN [valid |-> FALSE, message |-> <<"Invalid token mint address">>]
    ELSE IF o.amount <= 0
    THEN [valid |-> FALSE, message |-> <<"Amount must be positive">>]
    ELSE IF o.slippage <= 0
    THEN [valid |-> FALSE, message |-> <<"Slippage must be between 0 and 50%">>]
    ELSE IF ~_validate_wallet_address(o.wallet_address)
    THEN [valid |-> FALSE, message |-> <<"Invalid wallet address">>]
    ELSE [valid |-> TRUE, message |-> <<"Order is valid">>]

_validate_order(o) ==
    IF ~_validate_token_mint(o.token_mint)
    THEN [valid |-> FALSE, message |-> <<"Invalid token mint address">>]
    ELSE IF o.amount <= 0
    THEN [valid |-> FALSE, message |-> <<"Amount must be positive">>]
    ELSE IF o.slippage <= 0 \/ o.slippage > MaxSlippagePct
    THEN [valid |-> FALSE, message |-> <<"Slippage must be between 0 and 50%">>]
    ELSE IF ~_validate_wallet_address(o.wallet_address)
    THEN [valid |-> FALSE, message |-> <<"Invalid wallet address">>]
    ELSE [valid |-> TRUE, message |-> <<"Order is valid">>]


(***************************************************************************)
(* State                                                                   *)
(***************************************************************************)
VARIABLES
    solana_manager,  \* TradingService.solana_manager: "None" or "SolanaManager"
    db,              \* the orders table: order id -> row or NoRow
    cache,           \* the "order:<id>" cache keys: order id -> serialized order or NoEntry
    next_order_id,   \* the next id uuid.uuid4() returns
    chain_sends,     \* order id -> number of send_transaction calls made for it
    pc,              \* handler -> the awaited call it is suspended on
    op,              \* handler -> the RPC it serves
    order,           \* handler -> its local Order message (request / order)
    resp,            \* handler -> the OrderResponse it returned
    obs,             \* handler -> what happened while it ran (history of this call)
    pl_orders,       \* profit/loss: the wallet's rows of the orders table, oldest first
    pl_query,        \* profit/loss: how the query of _get_orders ended ("none": not run)
    pl_result,       \* profit/loss: what _calculate_profit_loss returned
    go_orders,       \* GetOrders: the orders table, in insertion order
    go_request,      \* GetOrders: the OrdersRequest being served
    go_response,     \* GetOrders: the OrdersResponse returned
    sn_next_id,      \* sniper: the next id uuid.uuid4() returns to StartSniper
    sn_start,        \* sniper: sniper id -> the StartSniper call that generated it
    sniper_config,   \* sniper: sniper id -> the sniper_config dictionary object
    active_snipers,  \* sniper: the keys of SniperService.active_snipers
    snipers_table,   \* sniper: the sniper ids with a row in the snipers table
    snipe_records,   \* sniper: the rows of the snipe_records table, oldest first
    sn_rpc,          \* sniper: the StopSniper / Add- / RemoveTargetToken call just answered
    scan,            \* sniper: the scanning task (_token_scanning_loop) and its locals
    monitor,         \* sniper: the sell-monitor task (_monitor_sell_opportunity) and its locals
    copy_config,     \* copy trade: the copy_trade_config dictionary of the session
    active_copy_traders, \* copy trade: the keys of CopyTradeService.active_copy_traders
    copy_task,       \* copy trade: the monitoring task (_monitoring_loop) and its locals
    copy_records,    \* copy trade: the rows of the copy_trade_records table, oldest first
    clock,           \* copy trade: datetime.now().timestamp(), and the times it advanced
    price_cache,     \* market data: the "price:<mint>:<cluster>" cache key: entry or NoPrice
    gtp,             \* market data: the GetTokenPrice call: position, sources queried, outcome
    md_running,      \* market data: MarketDataService.running
    price_subscribers, \* market data: MarketDataService.price_subscribers for the one key
    sub,             \* market data: stream -> the SubscribeToPriceUpdates generator serving it
    status_rpc,      \* sniper: the GetSniperStatus call just answered
    sn_running,      \* sniper: SniperService.running
    cycle            \* sniper: the scan task's loop and its current scan cycle

vars == <<solana_manager, db, cache, next_order_id, chain_sends,
          pc, op, order, resp, obs, pl_orders, pl_query, pl_result,
          go_orders, go_request, go_response,
          sn_next_id, sn_start, sniper_config, active_snipers, snipers_table,
          snipe_records, sn_rpc, scan, monitor,
          copy_config, active_copy_traders, copy_task, copy_records, clock,
          price_cache, gtp, md_running, price_subscribers, sub,
          status_rpc, sn_running, cycle>>

order_vars == <<solana_manager, db, cache, next_order_id, chain_sends,
                pc, op, order, resp, obs>>
pl_vars == <<pl_orders, pl_query, pl_result>>
go_vars == <<go_orders, go_request, go_response>>
\* the state of the services other than the order pipeline and profit/loss
sniper_vars == <<sn_next_id, sn_start, sniper_config, active_snipers, snipers_table,
                 snipe_records, sn_rpc>>
snipe_vars == <<scan, monitor>>
copy_vars == <<copy_config, active_copy_traders, copy_task, copy_records, clock>>
md_vars == <<price_cache, gtp, md_running, price_subscribers, sub>>
svc_vars == <<status_rpc, sn_running, cycle>>
ext_vars == <<go_vars, sniper_vars, snipe_vars, copy_vars, md_vars, svc_vars>>

(***************************************************************************)
(* Requests a client can send to PlaceOrder: the baseline request of       *)
(* scenario A (amount 1.0, slippage 0.05) with one field varied at a time. *)
(***************************************************************************)
AmountSamples == {-1, 0, 1}
SlippageSamples == {0, 5, MaxSlippagePct + 1, 60}

BaseRequest ==
    [token_mint |-> "addr_ok", wallet_address |-> "addr_ok", amount |-> 1,
     slippage |-> 5, order_type |-> BUY]

PlaceRequests ==
    {[BaseRequest EXCEPT !.token_mint = a] : a \in AddressSamples}
    \cup {[BaseRequest EXCEPT !.wallet_address = a] : a \in AddressSamples}
    \cup {[BaseRequest EXCEPT !.amount = a] : a \in AmountSamples}
    \cup {[BaseRequest EXCEPT !.slippage = s] : s \in SlippageSamples}
    \cup {[BaseRequest EXCEPT !.token_mint = "addr_short", !.slippage = 60]}

\* lines 46-50: the request becomes the order: id, status PENDING; the
\* executed fields and the signature keep the proto defaults
NewOrder(r, id) ==
    [order_id |-> id, token_mint |-> r.token_mint,
     wallet_address |-> r.wallet_address, amount |-> r.amount,
     slippage |-> r.slippage, order_type |-> r.order_type, status |-> PENDING,
     executed_price |-> 0, executed_amount |-> 0, signature |-> ""]

\* OrderResponse; order_id 0 and signature "" are the unset proto fields
Response(success, message, id, signature) ==
    [success |-> success, message |-> message, order_id |-> id,
     signature |-> signature]

Failure(message) == Response(FALSE, message, 0, "")

\* what a handler call has seen and done so far:
\*   accepted           the request passed validation and the risk check
\*   risk, tx, cancel   what the risk manager, send_transaction and
\*                      _cancel_order_on_solana answered ("none": not called)
\*   error              execution_result["error"] of _execute_order
\*   inserts, updates   INSERT and UPDATE statements of this call that succeeded
\*   persisted_at_call  the order's persisted status when CancelOrder was called:
\*                      "none" (no call), "absent", "pending" or "terminal"
NoObs ==
    [accepted |-> FALSE, risk |-> "none", tx |-> "none", cancel |-> "none",
     error |-> "", inserts |-> 0, updates |-> 0, persisted_at_call |-> "none"]

(***************************************************************************)
(* Outcomes of the collaborators' calls                                    *)
(***************************************************************************)
\* RiskManager.check_order_risk: {"allowed": ..., "reason": ...} or an exception
RiskOutcomes == {"allowed", "denied", "raise"}
\* db_manager.execute / fetch_one, redis_client.set / get: returns or raises
IoOutcomes == {"ok", "raise"}
\* SolanaManager.send_transaction: the try branch or the except branch
TxOutcomes == {"success", "failure"}
\* _cancel_order_on_solana: the try branch or the except branch
CancelOutcomes == {"success", "failure"}

check_order_risk(outcome) ==
    IF outcome = "allowed"
    THEN [allowed |-> TRUE, reason |-> ""]
    ELSE [allowed |-> FALSE, reason |-> "position too large"]

\* a risk gate that lets every order through
RiskAllowedAlways(risk_check) == TRUE

\* line 62: if not risk_check["allowed"]
RiskAllowed(risk_check) == risk_check.allowed

\* SolanaManager.send_transaction: the dictionaries it returns
send_transaction(outcome) ==
    IF outcome = "success"
    THEN [success |-> TRUE, signature |-> "placeholder_signature",
          executed_price |-> 0, executed_amount |-> 0, compute_units_used |-> 0]
    ELSE [success |-> FALSE, error |-> "send failed"]

\* a dictionary lookup d[k]: a missing key raises KeyError
HasKey(d, k) == k \in DOMAIN d

\* _execute_order after send_transaction returned tx_result (lines 254-273)
ExecutionResult(tx_result) ==
    IF tx_result.success
    THEN IF /\ HasKey(tx_result, "signature")
            /\ HasKey(tx_result, "executed_price")
            /\ HasKey(tx_result, "executed_amount")
            /\ HasKey(tx_result, "compute_units_used")
            /\ HasKey(tx_result, "total_cost")
         THEN [success |-> TRUE, signature |-> tx_result.signature,
               executed_price |-> tx_result.executed_price,
               executed_amount |-> tx_result.executed_amount,
               compute_units_used |-> tx_result.compute_units_used,
               total_cost |-> tx_result.total_cost]
         ELSE [success |-> FALSE, error |-> "'total_cost'"]
    ELSE [success |-> FALSE, error |-> tx_result.error]

\* _execute_order (lines 231-273): self.solana_manager is None until it is
\* set from outside, and then get_priority_fee raises AttributeError
_execute_order(manager, outcome) ==
    IF manager = "None"
    THEN [success |-> FALSE,
          error |-> "'NoneType' object has no attribute 'get_priority_fee'"]
    ELSE ExecutionResult(send_transaction(outcome))


\* a CancelOrder that ignores the answer of the chain-side cancellation
CancellationSucceededAlways(cancellation_result) == TRUE

\* line 143: if cancellation_result["success"]
CancellationSucceeded(cancellation_result) == cancellation_result.success

\* _cancel_order_on_solana (lines 498-505)
_cancel_order_on_solana(outcome) ==
    IF outcome = "success"
    THEN [success |-> TRUE]
    ELSE [success |-> FALSE, error |-> "cancel failed"]

\* UPDATE orders SET status, executed_price, executed_amount, signature
UpdatedRow(row, o) ==
    IF row.status = ABSENT
    THEN row
    ELSE [row EXCEPT !.status = o.status,
                     !.executed_price = o.executed_price,
                     !.executed_amount = o.executed_amount,
                     !.signature = o.signature]

InternalError(what) == Failure(<<"Internal error: ", what>>)

(***************************************************************************)
(* Initial state: the service as constructed, with an empty orders table   *)
(* and an empty cache.  solana_manager is None after __init__ ("will be    *)
(* initialized with settings"); both the unset and the set attribute are   *)
(* initial states.                                                         *)
(***************************************************************************)
OrderInit ==
    /\ solana_manager \in {"None", "SolanaManager"}
    /\ db = [i \in OrderIds |-> NoRow]
    /\ cache = [i \in OrderIds |-> NoEntry]
    /\ next_order_id = 1
    /\ chain_sends = [i \in OrderIds |-> 0]
    /\ pc = [p \in Handlers |-> "idle"]
    /\ op = [p \in Handlers |-> "none"]
    /\ order = [p \in Handlers |-> NoOrder]
    /\ resp = [p \in Handlers |-> NoResponse]
    /\ obs = [p \in Handlers |-> NoObs]

Finish(p, response) ==
    /\ pc' = [pc EXCEPT ![p] = "done"]
    /\ resp' = [resp EXCEPT ![p] = response]

(***************************************************************************)
(* The other services at rest                                              *)
(***************************************************************************)
\* an OrdersRequest with the proto defaults, and no OrdersResponse yet
NoOrdersRequest ==
    [wallet_address |-> "", status |-> PENDING, start_time |-> 0, end_time |-> 0,
     limit |-> 0, offset |-> 0]
NoOrdersResponse == [returned |-> FALSE, query |-> "none", orders |-> << >>, total_count |-> 0]

GoInitIdle ==
    /\ go_orders = << >>
    /\ go_request = NoOrdersRequest
    /\ go_response = NoOrdersResponse

\* no sniper_config dictionary, no StartSniper call, no answered RPC
NoSniper == [is_running |-> FALSE, target_tokens |-> << >>, exists |-> FALSE]
NoSniperRequest ==
    [wallet_address |-> "", target_tokens |-> << >>, buy_amount |-> 0,
     profit_target |-> 0, stop_loss |-> 0, auto_sell |-> FALSE]
NoStart == [pc |-> "none", request |-> NoSniperRequest, success |-> FALSE, message |-> ""]
NoRpc == [rpc |-> "none", sniper_id |-> 0, success |-> FALSE, message |-> ""]

SniperIds == 1..MaxSnipers

\* SniperService.__init__ (lines 22-28) in front of empty tables
SniperInitIdle ==
    /\ sn_next_id = 1
    /\ sn_start = [i \in SniperIds |-> NoStart]
    /\ sniper_config = [i \in SniperIds |-> NoSniper]
    /\ active_snipers = {}
    /\ snipers_table = {}
    /\ snipe_records = << >>
    /\ sn_rpc = NoRpc

\* the scanning task between two checks; no sell-monitor task
ScanIdle ==
    [pc |-> "idle", sniper_id |-> 0, token_mint |-> "", token_info |-> << >>,
     checked |-> FALSE, good |-> FALSE, swap |-> "none", tok |-> 0,
     registered |-> FALSE]
NoMonitor ==
    [pc |-> "none", sniper_id |-> 0, token_mint |-> "", buy_price |-> 0,
     sell_price |-> 0, reason |-> "", tx |-> "none", amount |-> 0, signature |-> "",
     read |-> "none", profit |-> 0, credited |-> FALSE, profit_before |-> 0,
     update |-> "none", fetch |-> "none", others |-> << >>]

SnipeInitIdle ==
    /\ scan = ScanIdle
    /\ monitor = NoMonitor

\* no copy-trade session; the monitoring task asleep; the clock at ClockStart
NoCopyConfig == [is_running |-> FALSE]
NoTrade == [timestamp |-> 0, amount |-> 0]
NoDecision ==
    [made |-> FALSE, trade |-> NoTrade, current_time |-> 0, last_trade_time |-> 0,
     trades_this_hour |-> 0, max_trades_per_hour |-> 0, rate |-> "not_reached",
     result |-> FALSE]
CopyTaskIdle ==
    [pc |-> "sleep", cycles |-> 0, batch |-> << >>, trade |-> NoTrade,
     copy_amount |-> 0, swap |-> "none", decision |-> NoDecision,
     last_at_fetch |-> 0]
\* the clock reads at least one hour: last_trade_time = 0 is then an hour old
ClockStart == 3600

CopyInitIdle ==
    /\ copy_config = NoCopyConfig
    /\ active_copy_traders = {}
    /\ copy_task = CopyTaskIdle
    /\ copy_records = << >>
    /\ clock = [now |-> ClockStart, ticks |-> 0]

\* MarketDataService.__init__ (lines 20-25) in front of an empty cache; no
\* GetTokenPrice call and no subscription stream yet
NoPrice == [present |-> FALSE, price |-> 0, source |-> "none"]
NoPriceCall ==
    [pc |-> "none", queried |-> << >>, hit |-> FALSE, fetched |-> NoPrice,
     known |-> {}, outcome |-> "none", price |-> 0]
NoSubscribers == [has_key |-> FALSE, contexts |-> << >>]
Streams == {"s1", "s2"}
NoStream == [pc |-> "none", active |-> TRUE, emitted |-> 0]

MdInitIdle ==
    /\ price_cache = NoPrice
    /\ gtp = NoPriceCall
    /\ md_running = FALSE
    /\ price_subscribers = NoSubscribers
    /\ sub = [c \in Streams |-> NoStream]

\* context.abort(code, details) is called without await, as a plain
\* statement: with a context whose abort raises, the call leaves the handler
\* with an exception; with a context whose abort is a coroutine function the
\* call only creates a coroutine and the handler goes on
AbortSemantics == {"raises", "coroutine"}

\* the abort of an except branch (for GetTokenPrice lines 82-84), the handler's last statement:
\* the status the call ends with; "NONE" is a handler that returned None
\* without setting a status
AbortLast(code, how) == IF how = "raises" THEN code ELSE "NONE"

\* an abort inside the handler's try block that is followed by no return:
\* a raising abort is caught by "except Exception" and aborted again as
\* INTERNAL; otherwise the handler falls off its end and returns None
AbortInTry(code, how) == IF how = "raises" THEN AbortLast("INTERNAL", how) ELSE "NONE"

\* no answered GetSniperStatus; SniperService.__init__ leaves running False
\* and creates no scan task
NoStatus == [rpc |-> "none", sniper_id |-> 0, registered |-> FALSE, outcome |-> "none"]
NoCycle ==
    [pc |-> "none", cancelled |-> FALSE, size |-> 0, pos |-> 0, cur |-> 0,
     tok |-> 0, seen |-> {}, at_start |-> {}, failed |-> FALSE, failures |-> 0,
     cycles |-> 0]

SvcInitIdle ==
    /\ status_rpc = NoStatus
    /\ sn_running = FALSE
    /\ cycle = NoCycle

ExtInitIdle ==
    /\ GoInitIdle /\ SniperInitIdle /\ SnipeInitIdle /\ CopyInitIdle
    /\ MdInitIdle /\ SvcInitIdle

(***************************************************************************)
(* PlaceOrder, lines 41-69: id, validation, risk check                     *)
(***************************************************************************)
PlaceOrder(p, r, risk) ==
    /\ pc[p] = "idle"
    /\ next_order_id <= MaxOrders
    /\ LET o == NewOrder(r, next_order_id)
           validation_result == _validate_order(o)
           risk_check == check_order_risk(risk)
       IN /\ next_order_id' = next_order_id + 1
          /\ op' = [op EXCEPT ![p] = "PlaceOrder"]
          /\ order' = [order EXCEPT ![p] = o]
          /\ IF ~validation_result.valid
             THEN /\ Finish(p, Failure(validation_result.message))
                  /\ obs' = [obs EXCEPT ![p] = NoObs]
             ELSE IF risk = "raise"
             THEN /\ Finish(p, InternalError("risk manager error"))
                  /\ obs' = [obs EXCEPT ![p] = [NoObs EXCEPT !.risk = risk]]
             ELSE IF ~RiskAllowed(risk_check)
             THEN /\ Finish(p, Failure(<<"Risk limit exceeded: ", risk_check.reason>>))
                  /\ obs' = [obs EXCEPT ![p] = [NoObs EXCEPT !.risk = risk]]
             ELSE /\ pc' = [pc EXCEPT ![p] = "store_db"]
                  /\ resp' = resp
                  /\ obs' = [obs EXCEPT ![p] =
                               [NoObs EXCEPT !.risk = risk, !.accepted = TRUE]]
    /\ UNCHANGED <<solana_manager, db, cache, chain_sends, pl_vars, ext_vars>>

\* _store_order, lines 279-294: INSERT INTO orders
_store_order_db(p, io) ==
    /\ pc[p] = "store_db"
    /\ IF io = "ok"
       THEN /\ db' = [db EXCEPT ![order[p].order_id] = order[p]]
            /\ obs' = [obs EXCEPT ![p].inserts = @ + 1]
            /\ pc' = [pc EXCEPT ![p] = "store_cache"]
            /\ resp' = resp
       ELSE /\ Finish(p, InternalError("database error"))
            /\ UNCHANGED <<db, obs>>
    /\ UNCHANGED <<solana_manager, cache, next_order_id, chain_sends, op, order, pl_vars, ext_vars>>

\* _store_order, lines 296-305: redis set; then PlaceOrder calls _execute_order
_store_order_cache(p, io) ==
    /\ pc[p] = "store_cache"
    /\ IF io = "ok"
       THEN /\ cache' = [cache EXCEPT ![order[p].order_id] = order[p]]
            /\ pc' = [pc EXCEPT ![p] = "execute"]
            /\ resp' = resp
       ELSE /\ Finish(p, InternalError("cache error"))
            /\ cache' = cache
    /\ UNCHANGED <<solana_manager, db, next_order_id, chain_sends, op, order, obs, pl_vars, ext_vars>>

\* PlaceOrder, lines 72-79 and 93-95, with _execute_order (lines 231-273)
ExecuteOrder(p, tx) ==
    /\ pc[p] = "execute"
    /\ LET execution_result == _execute_order(solana_manager, tx)
           id == order[p].order_id
       IN /\ chain_sends' = IF solana_manager = "None"
                            THEN chain_sends
                            ELSE [chain_sends EXCEPT ![id] = @ + 1]
          /\ IF execution_result.success
             THEN /\ order' = [order EXCEPT ![p] =
                                 [@ EXCEPT !.status = EXECUTED,
                                           !.signature = execution_result.signature,
                                           !.executed_price = execution_result.executed_price,
                                           !.executed_amount = execution_result.executed_amount]]
                  /\ obs' = [obs EXCEPT ![p].tx = tx]
             ELSE /\ order' = [order EXCEPT ![p].status = FAILED]
                  /\ obs' = [obs EXCEPT ![p].tx = IF solana_manager = "None"
                                                  THEN "no_client" ELSE tx,
                                        ![p].error = execution_result.error]
    /\ pc' = [pc EXCEPT ![p] = "update_db"]
    /\ UNCHANGED <<solana_manager, db, cache, next_order_id, op, resp, pl_vars, ext_vars>>

\* _update_order, lines 310-321: UPDATE orders ... WHERE order_id
_update_order_db(p, io) ==
    /\ pc[p] = "update_db"
    /\ IF io = "ok"
       THEN /\ db' = [db EXCEPT ![order[p].order_id] = UpdatedRow(@, order[p])]
            /\ obs' = [obs EXCEPT ![p].updates = @ + 1]
            /\ pc' = [pc EXCEPT ![p] = "update_cache"]
            /\ resp' = resp
       ELSE /\ Finish(p, InternalError("database error"))
            /\ UNCHANGED <<db, obs>>
    /\ UNCHANGED <<solana_manager, cache, next_order_id, chain_sends, op, order, pl_vars, ext_vars>>

\* the response after _update_order returned: lines 83-92, 98-103, 147-152
FinalResponse(rpc, o, error) ==
    IF rpc = "CancelOrder"
    THEN Response(TRUE, <<"Order cancelled successfully">>, 0, "")
    ELSE IF o.status = EXECUTED
    THEN Response(TRUE, <<"Order executed successfully">>, o.order_id, o.signature)
    ELSE Failure(<<"Order execution failed: ", error>>)

\* _update_order, lines 323-332: redis set; then the handler returns
_update_order_cache(p, io) ==
    /\ pc[p] = "update_cache"
    /\ IF io = "ok"
       THEN /\ cache' = [cache EXCEPT ![order[p].order_id] = order[p]]
            /\ Finish(p, FinalResponse(op[p], order[p], obs[p].error))
       ELSE /\ Finish(p, InternalError("cache error"))
            /\ cache' = cache
    /\ UNCHANGED <<solana_manager, db, next_order_id, chain_sends, op, order, obs, pl_vars, ext_vars>>


(***************************************************************************)
(* CancelOrder, lines 124-164, with _get_order (lines 334-381)             *)
(***************************************************************************)
\* lines 128-157, run once _get_order has returned the order o;
\* ob is what the call has seen so far
CancelDecide(p, o, c, ob) ==
    LET cancellation_result == _cancel_order_on_solana(c)
    IN IF o.status # PENDING
       THEN /\ Finish(p, Failure(<<"Order cannot be cancelled">>))
            /\ order' = [order EXCEPT ![p] = o]
            /\ obs' = [obs EXCEPT ![p] = ob]
       ELSE IF CancellationSucceeded(cancellation_result)
       THEN /\ order' = [order EXCEPT ![p] = [o EXCEPT !.status = CANCELLED]]
            /\ obs' = [obs EXCEPT ![p] = [ob EXCEPT !.cancel = c]]
            /\ pc' = [pc EXCEPT ![p] = "update_db"]
            /\ resp' = resp
       ELSE /\ Finish(p, Failure(<<"Failed to cancel order: ", cancellation_result.error>>))
            /\ order' = [order EXCEPT ![p] = o]
            /\ obs' = [obs EXCEPT ![p] = [ob EXCEPT !.cancel = c]]

\* _get_order returned None: lines 128-132
NotFound(p) == Finish(p, Failure(<<"Order not found">>))

\* CancelOrder is called for order id; _get_order, lines 338-342: redis get
CancelOrder(p, id, io, c) ==
    /\ pc[p] = "idle"
    /\ op' = [op EXCEPT ![p] = "CancelOrder"]
    /\ LET seen == [NoObs EXCEPT !.persisted_at_call =
                              IF db[id].status = ABSENT THEN "absent"
                              ELSE IF db[id].status = PENDING THEN "pending"
                              ELSE "terminal"]
           request == [NoOrder EXCEPT !.order_id = id]
       IN IF io = "raise"
          THEN /\ NotFound(p)
               /\ order' = [order EXCEPT ![p] = request]
               /\ obs' = [obs EXCEPT ![p] = seen]
          ELSE IF cache[id].status = ABSENT
          THEN /\ pc' = [pc EXCEPT ![p] = "get_db"]
               /\ order' = [order EXCEPT ![p] = request]
               /\ obs' = [obs EXCEPT ![p] = seen]
               /\ resp' = resp
          ELSE CancelDecide(p, cache[id], c, seen)
    /\ UNCHANGED <<solana_manager, db, cache, next_order_id, chain_sends, pl_vars, ext_vars>>

\* _get_order, lines 344-366: SELECT * FROM orders WHERE order_id
_get_order_db(p, io) ==
    /\ pc[p] = "get_db"
    /\ IF io = "raise" \/ db[order[p].order_id].status = ABSENT
       THEN /\ NotFound(p)
            /\ order' = order
       ELSE /\ order' = [order EXCEPT ![p] = db[order[p].order_id]]
            /\ pc' = [pc EXCEPT ![p] = "get_cache_fill"]
            /\ resp' = resp
    /\ UNCHANGED <<solana_manager, db, cache, next_order_id, chain_sends, op, obs, pl_vars, ext_vars>>

\* _get_order, lines 368-381: redis set of the row just read; an exception
\* here makes _get_order return None
_get_order_cache_fill(p, io, c) ==
    /\ pc[p] = "get_cache_fill"
    /\ IF io = "raise"
       THEN /\ NotFound(p)
            /\ UNCHANGED <<cache, order, obs>>
       ELSE /\ cache' = [cache EXCEPT ![order[p].order_id] = order[p]]
            /\ CancelDecide(p, order[p], c, obs[p])
    /\ UNCHANGED <<solana_manager, db, next_order_id, chain_sends, op, pl_vars, ext_vars>>

\* the response has been sent: the handler is free for the next call
Return(p) ==
    /\ pc[p] = "done"
    /\ pc' = [pc EXCEPT ![p] = "idle"]
    /\ op' = [op EXCEPT ![p] = "none"]
    /\ order' = [order EXCEPT ![p] = NoOrder]
    /\ resp' = [resp EXCEPT ![p] = NoResponse]
    /\ obs' = [obs EXCEPT ![p] = NoObs]
    /\ UNCHANGED <<solana_manager, db, cache, next_order_id, chain_sends, pl_vars, ext_vars>>

\* expire=3600: the cache drops the key
CacheExpire(id) ==
    /\ cache[id].status # ABSENT
    /\ cache' = [cache EXCEPT ![id] = NoEntry]
    /\ UNCHANGED <<solana_manager, db, next_order_id, chain_sends,
                   pc, op, order, resp, obs, pl_vars, ext_vars>>

OrderNext ==
    \/ \E p \in Handlers, r \in PlaceRequests, risk \in RiskOutcomes : PlaceOrder(p, r, risk)
    \/ \E p \in Handlers, io \in IoOutcomes : _store_order_db(p, io)
    \/ \E p \in Handlers, io \in IoOutcomes : _store_order_cache(p, io)
    \/ \E p \in Handlers, tx \in TxOutcomes : ExecuteOrder(p, tx)
    \/ \E p \in Handlers, io \in IoOutcomes : _update_order_db(p, io)
    \/ \E p \in Handlers, io \in IoOutcomes : _update_order_cache(p, io)
    \/ \E p \in Handlers, id \in OrderIds, io \in IoOutcomes, c \in CancelOutcomes :
          CancelOrder(p, id, io, c)
    \/ \E p \in Handlers, io \in IoOutcomes : _get_order_db(p, io)
    \/ \E p \in Handlers, io \in IoOutcomes, c \in CancelOutcomes :
          _get_order_cache_fill(p, io, c)
    \/ \E p \in Handlers : Return(p)
    \/ \E id \in OrderIds : CacheExpire(id)

(***************************************************************************)
(* Profit and loss: _get_orders (lines 383-438) and _calculate_profit_loss *)
(* (lines 507-531).  The orders table of one wallet is a sequence of rows, *)
(* oldest first; the timestamp of a row is its position.                   *)
(***************************************************************************)
PriceSamples == {0, 2, 3}

PlRows ==
    [order_type : {BUY, SELL}, status : {EXECUTED},
     executed_amount : 0..MaxQty, executed_price : PriceSamples]
    \cup {[order_type |-> BUY, status |-> FAILED,
           executed_amount |-> 1, executed_price |-> 2]}

RECURSIVE SeqsUpTo(_, _)
SeqsUpTo(S, n) ==
    IF n = 0
    THEN {<< >>}
    ELSE LET shorter == SeqsUpTo(S, n - 1)
         IN shorter \cup {Append(q, x) : q \in {t \in shorter : Len(t) = n - 1}, x \in S}

Reverse(q) == [i \in 1..Len(q) |-> q[Len(q) + 1 - i]]

\* _get_orders(wallet_address, status, 0, 0, 0, 0): WHERE status = $2 unless
\* status is 0 (PENDING), ORDER BY timestamp DESC; a failed query gives []
_get_orders(table, status, io) ==
    IF io = "raise"
    THEN << >>
    ELSE LET Matches(row) == status = PENDING \/ row.status = status
         IN Reverse(SelectSeq(table, Matches))

\* lines 516-520: the loop over the orders, from the state acc
RECURSIVE ProfitLoop(_, _)
ProfitLoop(orders, acc) ==
    IF orders = << >>
    THEN acc
    ELSE LET o == Head(orders)
             value == o.executed_amount * o.executed_price
         IN ProfitLoop(Tail(orders),
                IF o.order_type = BUY
                THEN [acc EXCEPT !.total_invested = @ + value]
                ELSE IF o.order_type = SELL
                THEN [acc EXCEPT !.total_profit = @ + value - acc.total_invested]
                ELSE acc)

\* the result dictionary; the percentage total_profit / total_invested * 100
\* is kept as the fraction pct_num / pct_den; raised: an exception reached
\* the except branch of _calculate_profit_loss
PlResult(profit, num, den, raised) ==
    [computed |-> TRUE, total_profit |-> profit, pct_num |-> num, pct_den |-> den,
     raised |-> raised]

\* line 522 with the guard "total_invested >= 0": divides by zero
PercentageGuardGe(totals) ==
    IF totals.total_invested >= 0
    THEN IF totals.total_invested = 0
         THEN PlResult(0, 0, 1, TRUE)
         ELSE PlResult(totals.total_profit, totals.total_profit * 100,
                       totals.total_invested, FALSE)
    ELSE PlResult(totals.total_profit, 0, 1, FALSE)

\* lines 522-531
Percentage(totals) ==
    IF totals.total_invested > 0
    THEN PlResult(totals.total_profit, totals.total_profit * 100,
                  totals.total_invested, FALSE)
    ELSE PlResult(totals.total_profit, 0, 1, FALSE)

_calculate_profit_loss(table, io) ==
    Percentage(ProfitLoop(_get_orders(table, EXECUTED, io),
                          [total_profit |-> 0, total_invested |-> 0]))

NotComputed ==
    [computed |-> FALSE, total_profit |-> 0, pct_num |-> 0, pct_den |-> 1,
     raised |-> FALSE]

PlInitIdle ==
    /\ pl_orders = << >>
    /\ pl_query = "none"
    /\ pl_result = NotComputed

\* the pipeline at rest in front of an orders table with some history
PlInit ==
    /\ OrderInit
    /\ solana_manager = "None"
    /\ pl_orders \in SeqsUpTo(PlRows, MaxHistory)
    /\ pl_query = "none"
    /\ pl_result = NotComputed
    /\ ExtInitIdle

\* GetPortfolio -> _get_portfolio -> _calculate_profit_loss (line 450)
CalculateProfitLoss(io) ==
    /\ ~pl_result.computed
    /\ pl_query' = io
    /\ pl_result' = _calculate_profit_loss(pl_orders, io)
    /\ UNCHANGED <<pl_orders, order_vars, ext_vars>>

(***************************************************************************)
(* GetOrders (lines 166-185) with _get_orders (lines 383-438).  The orders *)
(* table is a sequence of rows in insertion order; a row's order id and    *)
(* timestamp are its position.                                             *)
(***************************************************************************)
GoWallets == {"wallet_a", "wallet_b"}
GoRowKinds == [wallet_address : GoWallets, status : {PENDING, EXECUTED}]

GoRow(kind, i) ==
    [order_id |-> i, wallet_address |-> kind.wallet_address,
     status |-> kind.status, timestamp |-> i]

GoTables ==
    {[i \in 1..Len(kinds) |-> GoRow(kinds[i], i)] : kinds \in SeqsUpTo(GoRowKinds, MaxRows)}

OrdersRequests ==
    [wallet_address : GoWallets, status : {PENDING, EXECUTED, FAILED},
     start_time : 0..MaxRows, end_time : 0..MaxRows,
     limit : {0, 1}, offset : {0, 1}]

\* LIMIT and OFFSET of the query, applied to the ordered rows
Page(rows, limit, offset) ==
    LET from == IF offset > 0 THEN offset + 1 ELSE 1
        rest == SubSeq(rows, from, Len(rows))
    IN IF limit > 0 /\ limit < Len(rest) THEN SubSeq(rest, 1, limit) ELSE rest

\* _get_orders with all its arguments: the query built at lines 387-410;
\* a failed query gives []
_get_orders_query(table, r, io) ==
    IF io = "raise"
    THEN << >>
    ELSE LET Matches(row) ==
                 /\ row.wallet_address = r.wallet_address
                 /\ (r.status # PENDING => row.status = r.status)
                 /\ (r.start_time > 0 => row.timestamp >= r.start_time)
                 /\ (r.end_time > 0 => row.timestamp <= r.end_time)
         IN Page(Reverse(SelectSeq(table, Matches)), r.limit, r.offset)

GoInit ==
    /\ OrderInit
    /\ solana_manager = "None"
    /\ PlInitIdle
    /\ MdInitIdle
    /\ SvcInitIdle
    /\ go_orders \in GoTables
    /\ go_request = NoOrdersRequest
    /\ go_response = NoOrdersResponse
    /\ SniperInitIdle
    /\ SnipeInitIdle
    /\ CopyInitIdle

\* GetOrders, lines 166-185
GetOrders(r, io) ==
    /\ ~go_response.returned
    /\ go_request' = r
    /\ LET orders == _get_orders_query(go_orders, r, io)
       IN go_response' = [returned |-> TRUE, query |-> io, orders |-> orders,
                          total_count |-> Len(orders)]
    /\ UNCHANGED <<go_orders, order_vars, pl_vars, md_vars, svc_vars, sniper_vars, snipe_vars, copy_vars>>

GoNext == \E r \in OrdersRequests, io \in IoOutcomes : GetOrders(r, io)
SpecGO == GoInit /\ [][GoNext]_vars

(***************************************************************************)
(* The sniper registry (src/services/sniper_service.py): StartSniper,      *)
(* StopSniper, AddTargetToken, RemoveTargetToken.  StartSniper awaits the  *)
(* INSERT of _store_sniper_config; the other three run without an await.   *)
(***************************************************************************)
SniperWallets == {"addr_ok", "addr_short"}
SniperTokens == {"addr_ok", "addr_short"}
\* request.target_tokens: none, one valid, one malformed, one valid given twice
TargetListSamples == {<< >>, <<"addr_ok">>, <<"addr_short">>, <<"addr_ok", "addr_ok">>}
\* buy 1 SOL, profit target 0.5, stop loss 0.2 (in percent), auto-sell on
SniperRequests ==
    [wallet_address : SniperWallets, target_tokens : TargetListSamples,
     buy_amount : {1}, profit_target : {50}, stop_loss : {20}, auto_sell : {TRUE}]
\* the ids a client can send: the generated ones and one never generated
RequestSniperIds == 0..MaxSnipers

\* lines 522-535
SniperService_validate_wallet_address(wallet_address) ==
    IF Len(AddressText(wallet_address)) # AddressLen
    THEN FALSE
    ELSE b58decode_ok(AddressText(wallet_address))

\* lines 537-550
SniperService_validate_token_mint(token_mint) ==
    IF Len(AddressText(token_mint)) # AddressLen
    THEN FALSE
    ELSE b58decode_ok(AddressText(token_mint))

\* lines 58-76: the sniper_config dictionary
NewSniperConfig(r, id) ==
    [exists |-> TRUE, sniper_id |-> id, wallet_address |-> r.wallet_address,
     target_tokens |-> r.target_tokens, buy_amount |-> r.buy_amount,
     profit_target |-> r.profit_target, stop_loss |-> r.stop_loss,
     auto_sell |-> r.auto_sell, is_running |-> TRUE,
     successful_snipes |-> 0, failed_snipes |-> 0, total_profit |-> 0]

SniperResponse(r, success, message) ==
    [pc |-> "done", request |-> r, success |-> success, message |-> message]

\* StartSniper, lines 43-76: id, validation, the configuration
StartSniper(r) ==
    /\ sn_next_id <= MaxSnipers
    /\ sn_next_id' = sn_next_id + 1
    /\ sn_start' = [sn_start EXCEPT ![sn_next_id] =
                       IF ~SniperService_validate_wallet_address(r.wallet_address)
                       THEN SniperResponse(r, FALSE, "Invalid wallet address")
                       ELSE [pc |-> "store", request |-> r, success |-> FALSE,
                             message |-> ""]]
    /\ UNCHANGED <<sniper_config, active_snipers, snipers_table, snipe_records, sn_rpc,
                   order_vars, pl_vars, md_vars, svc_vars, go_vars, snipe_vars, copy_vars>>

\* a _store_sniper_config that logs the exception and does not re-raise it
_store_sniper_config_swallowed(id, io) ==
    /\ sn_start[id].pc = "store"
    /\ snipers_table' = IF io = "ok" THEN snipers_table \cup {id} ELSE snipers_table
    /\ sniper_config' = [sniper_config EXCEPT ![id] =
                             NewSniperConfig(sn_start[id].request, id)]
    /\ active_snipers' = active_snipers \cup {id}
    /\ sn_start' = [sn_start EXCEPT ![id] =
                       SniperResponse(@.request, TRUE, "Sniper started successfully")]
    /\ UNCHANGED <<sn_next_id, snipe_records, sn_rpc, order_vars, pl_vars, md_vars, svc_vars, go_vars, snipe_vars, copy_vars>>

\* _store_sniper_config (lines 441-461) and the rest of StartSniper (lines 79-97)
_store_sniper_config(id, io) ==
    /\ sn_start[id].pc = "store"
    /\ IF io = "ok"
       THEN /\ snipers_table' = snipers_table \cup {id}
            /\ sniper_config' = [sniper_config EXCEPT ![id] =
                                     NewSniperConfig(sn_start[id].request, id)]
            /\ active_snipers' = active_snipers \cup {id}
            /\ sn_start' = [sn_start EXCEPT ![id] =
                               SniperResponse(@.request, TRUE, "Sniper started successfully")]
       ELSE /\ sn_start' = [sn_start EXCEPT ![id] =
                               SniperResponse(@.request, FALSE, "Failed to start sniper: ")]
            /\ UNCHANGED <<snipers_table, sniper_config, active_snipers>>
    /\ UNCHANGED <<sn_next_id, snipe_records, sn_rpc, order_vars, pl_vars, md_vars, svc_vars, go_vars, snipe_vars, copy_vars>>

RpcAnswer(rpc, id, success, message) ==
    [rpc |-> rpc, sniper_id |-> id, success |-> success, message |-> message]

\* a StopSniper that flips is_running and leaves the session in the map
StopSniper_no_delete(id) ==
    /\ sn_rpc = NoRpc
    /\ IF id \notin active_snipers
       THEN /\ sn_rpc' = RpcAnswer("StopSniper", id, FALSE, "Sniper not found")
            /\ UNCHANGED <<sniper_config, active_snipers>>
       ELSE /\ sniper_config' = [sniper_config EXCEPT ![id].is_running = FALSE]
            /\ active_snipers' = active_snipers
            /\ sn_rpc' = RpcAnswer("StopSniper", id, TRUE, "Sniper stopped successfully")
    /\ UNCHANGED <<sn_next_id, sn_start, snipers_table, snipe_records,
                   order_vars, pl_vars, md_vars, svc_vars, go_vars, snipe_vars, copy_vars>>

\* StopSniper, lines 99-126
StopSniper(id) ==
    /\ sn_rpc = NoRpc
    /\ IF id \notin active_snipers
       THEN /\ sn_rpc' = RpcAnswer("StopSniper", id, FALSE, "Sniper not found")
            /\ UNCHANGED <<sniper_config, active_snipers>>
       ELSE /\ sniper_config' = [sniper_config EXCEPT ![id].is_running = FALSE]
            /\ active_snipers' = active_snipers \ {id}
            /\ sn_rpc' = RpcAnswer("StopSniper", id, TRUE, "Sniper stopped successfully")
    /\ UNCHANGED <<sn_next_id, sn_start, snipers_table, snipe_records,
                   order_vars, pl_vars, md_vars, svc_vars, go_vars, snipe_vars, copy_vars>>

\* AddTargetToken, lines 152-185
AddTargetToken(id, token_mint) ==
    /\ sn_rpc = NoRpc
    /\ IF id \notin active_snipers
       THEN /\ sn_rpc' = RpcAnswer("AddTargetToken", id, FALSE, "Sniper not found")
            /\ sniper_config' = sniper_config
       ELSE IF ~SniperService_validate_token_mint(token_mint)
       THEN /\ sn_rpc' = RpcAnswer("AddTargetToken", id, FALSE, "Invalid token mint address")
            /\ sniper_config' = sniper_config
       ELSE /\ Len(sniper_config[id].target_tokens) < MaxTargets
            /\ sniper_config' = [sniper_config EXCEPT ![id].target_tokens =
                                     Append(@, token_mint)]
            /\ sn_rpc' = RpcAnswer("AddTargetToken", id, TRUE,
                                   "Target token added successfully")
    /\ UNCHANGED <<sn_next_id, sn_start, active_snipers, snipers_table, snipe_records,
                   order_vars, pl_vars, md_vars, svc_vars, go_vars, snipe_vars, copy_vars>>

\* list.remove(x): drops the first occurrence of x
RECURSIVE ListRemove(_, _)
ListRemove(list, x) ==
    IF list = << >>
    THEN << >>
    ELSE IF Head(list) = x
    THEN Tail(list)
    ELSE <<Head(list)>> \o ListRemove(Tail(list), x)

InList(x, list) == \E i \in 1..Len(list) : list[i] = x

\* RemoveTargetToken, lines 187-215
RemoveTargetToken(id, token_mint) ==
    /\ sn_rpc = NoRpc
    /\ IF id \notin active_snipers
       THEN /\ sn_rpc' = RpcAnswer("RemoveTargetToken", id, FALSE, "Sniper not found")
            /\ sniper_config' = sniper_config
       ELSE /\ sniper_config' =
                   IF InList(token_mint, sniper_config[id].target_tokens)
                   THEN [sniper_config EXCEPT ![id].target_tokens =
                            ListRemove(@, token_mint)]
                   ELSE sniper_config
            /\ sn_rpc' = RpcAnswer("RemoveTargetToken", id, TRUE,
                                   "Target token removed successfully")
    /\ UNCHANGED <<sn_next_id, sn_start, active_snipers, snipers_table, snipe_records,
                   order_vars, pl_vars, md_vars, svc_vars, go_vars, snipe_vars, copy_vars>>

\* the SniperResponse has been sent
SniperReturn ==
    /\ sn_rpc # NoRpc
    /\ sn_rpc' = NoRpc
    /\ UNCHANGED <<sn_next_id, sn_start, sniper_config, active_snipers, snipers_table,
                   snipe_records, order_vars, pl_vars, md_vars, svc_vars, go_vars, snipe_vars, copy_vars>>

\* GetSniperStatus, lines 128-150; the handler has no await.  For an id
\* that is not registered, line 134 aborts with NOT_FOUND inside the try
\* block and no return follows: a raising abort is caught at line 148, and
\* otherwise line 136 raises KeyError, which is caught there too
GetSniperStatus(id, how) ==
    /\ status_rpc' = [rpc |-> "GetSniperStatus", sniper_id |-> id,
                      registered |-> id \in active_snipers,
                      outcome |-> IF id \notin active_snipers
                                  THEN AbortInTry("NOT_FOUND", how)
                                  ELSE "OK"]
    /\ status_rpc' # status_rpc
    /\ UNCHANGED <<sn_running, cycle, sniper_vars,
                   order_vars, pl_vars, md_vars, go_vars, snipe_vars, copy_vars>>

SniperInit ==
    /\ OrderInit
    /\ solana_manager = "None"
    /\ PlInitIdle
    /\ MdInitIdle
    /\ SvcInitIdle
    /\ GoInitIdle
    /\ SniperInitIdle
    /\ SnipeInitIdle
    /\ CopyInitIdle

SniperNext ==
    \/ \E r \in SniperRequests : StartSniper(r)
    \/ \E id \in SniperIds, io \in IoOutcomes : _store_sniper_config(id, io)
    \/ \E id \in RequestSniperIds : StopSniper(id)
    \/ \E id \in RequestSniperIds, t \in SniperTokens : AddTargetToken(id, t)
    \/ \E id \in RequestSniperIds, t \in SniperTokens : RemoveTargetToken(id, t)
    \/ SniperReturn

SpecSniper == SniperInit /\ [][SniperNext]_vars

\* the registry RPCs together with the status lookup
StatusNext ==
    \/ \E r \in SniperRequests : StartSniper(r)
    \/ \E id \in SniperIds, io \in IoOutcomes : _store_sniper_config(id, io)
    \/ \E id \in RequestSniperIds : StopSniper(id)
    \/ \E id \in RequestSniperIds, t \in SniperTokens : AddTargetToken(id, t)
    \/ \E id \in RequestSniperIds, t \in SniperTokens : RemoveTargetToken(id, t)
    \/ SniperReturn
    \/ \E id \in RequestSniperIds, how \in AbortSemantics : GetSniperStatus(id, how)

SpecStatus == SniperInit /\ [][StatusNext]_vars

(***************************************************************************)
(* The scanning task and the sell monitor of the sniper service:           *)
(* _scan_for_opportunities, _check_token_opportunity, _is_good_opportunity,*)
(* _execute_snipe, _monitor_sell_opportunity, _execute_sell.  Prices are   *)
(* whole numbers; profit_target and stop_loss are in percent.  The model   *)
(* follows the scanning task until its first sell monitor is started.      *)
(***************************************************************************)
\* token_info.get("liquidity", 0) < 1000
MinLiquidity == 1000
\* sell_price IS NULL
NULL == -1

\* d.get(k, default)
DictGet(d, k, default) == IF k \in DOMAIN d THEN d[k] ELSE default

\* the dictionaries get_token_info can hand to the predicate: each of
\* liquidity, is_verified and is_honeypot present or missing
EmptyDict == [k \in {} |-> 0]
LiquidityParts == {EmptyDict} \cup {("liquidity" :> l) : l \in {MinLiquidity - 1, MinLiquidity}}
VerifiedParts == {EmptyDict} \cup {("is_verified" :> b) : b \in BOOLEAN}
HoneypotParts == {EmptyDict} \cup {("is_honeypot" :> b) : b \in BOOLEAN}
TokenInfoSamples ==
    {("success" :> TRUE) @@ ("price" :> 10) @@ l @@ v @@ h :
        l \in LiquidityParts, v \in VerifiedParts, h \in HoneypotParts}
    \cup {[success |-> FALSE, error |-> "Token not found"]}

\* _is_good_opportunity, lines 299-318
_is_good_opportunity(token_info) ==
    IF DictGet(token_info, "liquidity", 0) < MinLiquidity
    THEN FALSE
    ELSE IF ~DictGet(token_info, "is_verified", FALSE)
    THEN FALSE
    ELSE IF DictGet(token_info, "is_honeypot", FALSE)
    THEN FALSE
    ELSE TRUE

\* SolanaManager.execute_swap: the success dictionary of
\* _sign_and_send_transaction (lines 323-329), a failure dictionary, or an
\* exception in the caller (solana_manager unset)
SwapOutcomes == {"success", "failure", "raise"}
execute_swap(outcome) ==
    IF outcome = "success"
    THEN [success |-> TRUE, signature |-> "signature", amount |-> 0,
          executed_price |-> 0, compute_units_used |-> 0]
    ELSE [success |-> FALSE, error |-> "Transaction failed"]

\* a session as StartSniper registered it, with one valid target
SnipeSessions ==
    {NewSniperConfig([wallet_address |-> "addr_ok", target_tokens |-> <<"addr_ok">>,
                      buy_amount |-> a, profit_target |-> 50, stop_loss |-> 20,
                      auto_sell |-> s], 1) : a \in {1, 2}, s \in BOOLEAN}

\* a registered session in a service that start() (lines 30-34) has set
\* running, with its scan task between two checks
SnipeInit ==
    /\ OrderInit
    /\ solana_manager = "None"
    /\ PlInitIdle
    /\ MdInitIdle
    /\ status_rpc = NoStatus
    /\ sn_running = TRUE
    /\ cycle = NoCycle
    /\ GoInitIdle
    /\ sn_next_id = 2
    /\ \E c \in SnipeSessions :
          /\ sniper_config = [i \in SniperIds |-> IF i = 1 THEN c ELSE NoSniper]
          /\ sn_start = [i \in SniperIds |->
                            IF i = 1
                            THEN SniperResponse(
                                    [wallet_address |-> c.wallet_address,
                                     target_tokens |-> c.target_tokens,
                                     buy_amount |-> c.buy_amount,
                                     profit_target |-> c.profit_target,
                                     stop_loss |-> c.stop_loss,
                                     auto_sell |-> c.auto_sell],
                                    TRUE, "Sniper started successfully")
                            ELSE NoStart]
    /\ active_snipers = {1}
    /\ snipers_table = {1}
    /\ snipe_records = << >>
    /\ sn_rpc = NoRpc
    /\ SnipeInitIdle
    /\ CopyInitIdle

\* _scan_for_opportunities, lines 276-282: the next session and target
ScanPick(id, i) ==
    /\ sn_running
    /\ scan.pc = "idle"
    /\ monitor.pc = "none"
    /\ Len(snipe_records) < MaxRecords
    /\ id \in active_snipers
    /\ sniper_config[id].is_running
    /\ i \in 1..Len(sniper_config[id].target_tokens)
    /\ scan' = [ScanIdle EXCEPT !.pc = "info", !.sniper_id = id,
                                 !.token_mint = sniper_config[id].target_tokens[i],
                                 !.tok = i, !.registered = TRUE]
    /\ UNCHANGED <<monitor, sniper_vars, order_vars, pl_vars, md_vars, svc_vars, go_vars, copy_vars>>

\* _check_token_opportunity, lines 287-297: get_token_info answered (or
\* raised), then the predicate, then line 323 of _execute_snipe
CheckTokenOpportunity(outcome, token_info) ==
    /\ scan.pc = "info"
    /\ scan' = IF outcome = "raise"
               THEN [scan EXCEPT !.pc = "idle"]
               ELSE IF ~_is_good_opportunity(token_info)
               THEN [scan EXCEPT !.pc = "idle", !.token_info = token_info,
                                 !.checked = TRUE, !.good = FALSE]
               ELSE IF scan.sniper_id \notin active_snipers
               THEN [scan EXCEPT !.pc = "idle", !.token_info = token_info,
                                 !.checked = TRUE, !.good = TRUE]
               ELSE [scan EXCEPT !.pc = "swap", !.token_info = token_info,
                                 !.checked = TRUE, !.good = TRUE]
    /\ UNCHANGED <<monitor, sniper_vars, order_vars, pl_vars, md_vars, svc_vars, go_vars, copy_vars>>

\* _execute_snipe, lines 328-346 and 358-367: execute_swap answered
ExecuteSnipeSwap(outcome) ==
    /\ scan.pc = "swap"
    /\ scan' = IF outcome = "raise" \/ ~("price" \in DOMAIN scan.token_info)
               THEN [scan EXCEPT !.pc = "idle", !.swap = outcome]
               ELSE [scan EXCEPT !.pc = "record", !.swap = outcome]
    /\ UNCHANGED <<monitor, sniper_vars, order_vars, pl_vars, md_vars, svc_vars, go_vars, copy_vars>>

\* the row _record_snipe inserts (lines 463-481)
SnipeRecord(id, token_mint, buy_amount, buy_price, buy_signature, success) ==
    [sniper_id |-> id, token_mint |-> token_mint, buy_amount |-> buy_amount,
     buy_price |-> buy_price, buy_signature |-> buy_signature, success |-> success,
     sell_price |-> NULL, sell_signature |-> "", profit |-> NULL]

\* _execute_snipe, lines 339-357 and 360-372: the INSERT of _record_snipe
\* answered; the counters; the sell monitor is started (lines 377-386).  The
\* model follows the first monitor task; the tasks created while it exists
\* are listed in its field others
RecordSnipe(io) ==
    /\ scan.pc = "record"
    /\ LET id == scan.sniper_id
           cfg == sniper_config[id]
           tx_result == execute_swap(scan.swap)
           price == scan.token_info["price"]
       IN IF io = "raise"
          THEN UNCHANGED <<snipe_records, sniper_config, monitor>>
          ELSE /\ snipe_records' = Append(snipe_records,
                      SnipeRecord(id, scan.token_mint, cfg.buy_amount, price,
                                  IF tx_result.success THEN tx_result.signature ELSE "",
                                  tx_result.success))
               /\ IF id \notin active_snipers
                  THEN UNCHANGED <<sniper_config, monitor>>
                  ELSE IF tx_result.success
                  THEN /\ sniper_config' = [sniper_config EXCEPT
                                               ![id].successful_snipes = @ + 1]
                       /\ monitor' = IF ~cfg.auto_sell
                                     THEN monitor
                                     ELSE IF monitor.pc = "none"
                                     THEN [NoMonitor EXCEPT !.pc = "price",
                                              !.sniper_id = id,
                                              !.token_mint = scan.token_mint,
                                              !.buy_price = price]
                                     ELSE [monitor EXCEPT !.others = Append(@,
                                              [sniper_id |-> id,
                                               token_mint |-> scan.token_mint])]
                  ELSE /\ sniper_config' = [sniper_config EXCEPT
                                               ![id].failed_snipes = @ + 1]
                       /\ monitor' = monitor
    /\ scan' = [scan EXCEPT !.pc = "idle"]
    /\ UNCHANGED <<sn_next_id, sn_start, active_snipers, snipers_table, sn_rpc,
                   order_vars, pl_vars, md_vars, svc_vars, go_vars, copy_vars>>

\* the prices get_token_info can report for the token
MonitorPrices == {0, 10, 16}

\* what get_token_info answers to get_token_price: a token dictionary with a
\* price, or no usable answer (success False, or an exception)
PriceAnswers == {"price", "unavailable"}

\* SolanaManager.get_token_price, lines 139-148: 0.0 stands for a failed request
get_token_price(answer, price) ==
    IF answer = "price" THEN price ELSE 0

MonitorDone(m) == [m EXCEPT !.pc = "done"]

\* _monitor_sell_opportunity, line 386: the loop condition, then the call
\* of get_token_price
MonitorLoop ==
    /\ monitor.pc = "price"
    /\ monitor' = IF sniper_config[monitor.sniper_id].is_running
                  THEN [monitor EXCEPT !.pc = "price_wait", !.fetch = "none"]
                  ELSE MonitorDone(monitor)
    /\ UNCHANGED <<scan, sniper_vars, order_vars, pl_vars, md_vars, svc_vars, go_vars, copy_vars>>

\* lines 381-382 and 388-397: get_token_price answered; the thresholds; the
\* sell is started (line 405 of _execute_sell) or the task sleeps
MonitorPrice(outcome, answer, price) ==
    /\ monitor.pc = "price_wait"
    /\ LET cfg == sniper_config[monitor.sniper_id]
           current_price == get_token_price(answer, price)
           sells == \/ current_price * 100 >= monitor.buy_price * (100 + cfg.profit_target)
                    \/ current_price * 100 <= monitor.buy_price * (100 - cfg.stop_loss)
           reason == IF current_price * 100 >= monitor.buy_price * (100 + cfg.profit_target)
                     THEN "profit" ELSE "stop_loss"
       IN monitor' = IF outcome = "raise"
                     THEN MonitorDone(monitor)
                     ELSE IF ~sells
                     THEN [monitor EXCEPT !.pc = "price", !.fetch = answer]
                     ELSE IF monitor.sniper_id \notin active_snipers
                     THEN MonitorDone([monitor EXCEPT !.sell_price = current_price,
                                                      !.reason = reason,
                                                      !.fetch = answer])
                     ELSE [monitor EXCEPT !.pc = "sell_swap",
                                          !.sell_price = current_price,
                                          !.reason = reason,
                                          !.fetch = answer]
    /\ UNCHANGED <<scan, sniper_vars, order_vars, pl_vars, md_vars, svc_vars, go_vars, copy_vars>>

\* _execute_sell, lines 410-419 and 434-435: execute_swap answered
ExecuteSellSwap(outcome) ==
    /\ monitor.pc = "sell_swap"
    /\ LET tx_result == execute_swap(outcome)
       IN monitor' = IF outcome = "success"
                     THEN [monitor EXCEPT !.pc = "buy_price", !.tx = outcome,
                                          !.amount = tx_result.amount,
                                          !.signature = tx_result.signature]
                     ELSE MonitorDone([monitor EXCEPT !.tx = outcome])
    /\ UNCHANGED <<scan, sniper_vars, order_vars, pl_vars, md_vars, svc_vars, go_vars, copy_vars>>

\* the rows of snipe_records of a session and token, newest first
RecordsOf(records, id, token_mint) ==
    LET Matches(row) == row.sniper_id = id /\ row.token_mint = token_mint
    IN Reverse(SelectSeq(records, Matches))

\* _get_buy_price, lines 510-520
_get_buy_price(records, id, token_mint, io) ==
    IF io = "raise" \/ RecordsOf(records, id, token_mint) = << >>
    THEN 0
    ELSE Head(RecordsOf(records, id, token_mint)).buy_price

\* _execute_sell, lines 421-426: the buy price answered; the profit; the
\* session's total_profit
GetBuyPrice(io) ==
    /\ monitor.pc = "buy_price"
    /\ LET id == monitor.sniper_id
           buy_price == _get_buy_price(snipe_records, id, monitor.token_mint, io)
           profit == (monitor.sell_price - buy_price) * monitor.amount
       IN IF buy_price = 0 \/ id \notin active_snipers
          THEN /\ monitor' = MonitorDone([monitor EXCEPT !.read = io])
               /\ sniper_config' = sniper_config
          ELSE /\ monitor' = [monitor EXCEPT !.pc = "update", !.read = io,
                                  !.profit = profit, !.credited = TRUE,
                                  !.profit_before = sniper_config[id].total_profit]
               /\ sniper_config' = [sniper_config EXCEPT ![id].total_profit = @ + profit]
    /\ UNCHANGED <<scan, sn_next_id, sn_start, active_snipers, snipers_table,
                   snipe_records, sn_rpc, order_vars, pl_vars, md_vars, svc_vars, go_vars, copy_vars>>

\* UPDATE snipe_records SET sell_price, sell_signature, sell_time
\* WHERE sniper_id AND token_mint AND sell_price IS NULL (lines 483-496)
_update_snipe_record(records, id, token_mint, sell_price, sell_signature) ==
    [i \in 1..Len(records) |->
        IF /\ records[i].sniper_id = id
           /\ records[i].token_mint = token_mint
           /\ records[i].sell_price = NULL
        THEN [records[i] EXCEPT !.sell_price = sell_price,
                                !.sell_signature = sell_signature]
        ELSE records[i]]

\* _execute_sell, lines 429-438: the UPDATE answered
UpdateSnipeRecord(io) ==
    /\ monitor.pc = "update"
    /\ monitor' = MonitorDone([monitor EXCEPT !.update = io])
    /\ snipe_records' = IF io = "ok"
                        THEN _update_snipe_record(snipe_records, monitor.sniper_id,
                                 monitor.token_mint, monitor.sell_price,
                                 monitor.signature)
                        ELSE snipe_records
    /\ UNCHANGED <<scan, sn_next_id, sn_start, sniper_config, active_snipers,
                   snipers_table, sn_rpc, order_vars, pl_vars, md_vars, svc_vars, go_vars, copy_vars>>

\* SniperService.stop, lines 36-41: running is cleared and the scan task is
\* cancelled; CancelledError ends the scan task at the await it is suspended
\* on.  The sell-monitor tasks are not cancelled
SniperServiceStop ==
    /\ sn_running
    /\ sn_running' = FALSE
    /\ scan' = [scan EXCEPT !.pc = "cancelled"]
    /\ cycle' = IF cycle.pc = "none"
                THEN cycle
                ELSE [cycle EXCEPT !.pc = "ended", !.cancelled = TRUE]
    /\ UNCHANGED <<monitor, status_rpc, sniper_vars,
                   order_vars, pl_vars, md_vars, go_vars, copy_vars>>

SnipeNext ==
    \/ \E id \in SniperIds, i \in 1..MaxTargets : ScanPick(id, i)
    \/ \E outcome \in IoOutcomes, token_info \in TokenInfoSamples :
          CheckTokenOpportunity(outcome, token_info)
    \/ \E outcome \in SwapOutcomes : ExecuteSnipeSwap(outcome)
    \/ \E io \in IoOutcomes : RecordSnipe(io)
    \/ MonitorLoop
    \/ \E outcome \in IoOutcomes, answer \in PriceAnswers, price \in MonitorPrices :
          MonitorPrice(outcome, answer, price)
    \/ \E outcome \in SwapOutcomes : ExecuteSellSwap(outcome)
    \/ \E io \in IoOutcomes : GetBuyPrice(io)
    \/ \E io \in IoOutcomes : UpdateSnipeRecord(io)
    \/ \E id \in SniperIds : StopSniper(id)
    \/ SniperReturn
    \/ SniperServiceStop

SpecSnipe == SnipeInit /\ [][SnipeNext]_vars

(***************************************************************************)
(* The scan task inside one session's list of targets: the inner loop of   *)
(* _scan_for_opportunities (lines 280-282) goes from one target to the     *)
(* next while StopSniper can be handled at every await in between.         *)
(***************************************************************************)
\* lines 281-282: _check_token_opportunity has returned and the inner loop
\* takes the session's next target; it reads the list of the dictionary it
\* holds, and neither is_running nor self.active_snipers
ScanNextTarget ==
    /\ sn_running
    /\ scan.pc = "idle"
    /\ scan.sniper_id # 0
    /\ monitor.pc = "none"
    /\ Len(snipe_records) < MaxRecords
    /\ scan.tok < Len(sniper_config[scan.sniper_id].target_tokens)
    /\ scan' = [ScanIdle EXCEPT !.pc = "info", !.sniper_id = scan.sniper_id,
                    !.token_mint = sniper_config[scan.sniper_id].target_tokens[scan.tok + 1],
                    !.tok = scan.tok + 1,
                    !.registered = scan.sniper_id \in active_snipers]
    /\ UNCHANGED <<monitor, sniper_vars, order_vars, pl_vars, md_vars, svc_vars, go_vars, copy_vars>>

\* a session as StartSniper registered it, with two targets
TwoTargetSessions ==
    {NewSniperConfig([wallet_address |-> "addr_ok",
                      target_tokens |-> <<"addr_ok", "addr_ok_2">>,
                      buy_amount |-> 1, profit_target |-> 50, stop_loss |-> 20,
                      auto_sell |-> s], 1) : s \in BOOLEAN}

TargetsInit ==
    /\ OrderInit
    /\ solana_manager = "None"
    /\ PlInitIdle
    /\ MdInitIdle
    /\ status_rpc = NoStatus
    /\ sn_running = TRUE
    /\ cycle = NoCycle
    /\ GoInitIdle
    /\ sn_next_id = 2
    /\ \E c \in TwoTargetSessions :
          /\ sniper_config = [i \in SniperIds |-> IF i = 1 THEN c ELSE NoSniper]
          /\ sn_start = [i \in SniperIds |->
                            IF i = 1
                            THEN SniperResponse(
                                    [wallet_address |-> c.wallet_address,
                                     target_tokens |-> c.target_tokens,
                                     buy_amount |-> c.buy_amount,
                                     profit_target |-> c.profit_target,
                                     stop_loss |-> c.stop_loss,
                                     auto_sell |-> c.auto_sell],
                                    TRUE, "Sniper started successfully")
                            ELSE NoStart]
    /\ active_snipers = {1}
    /\ snipers_table = {1}
    /\ snipe_records = << >>
    /\ sn_rpc = NoRpc
    /\ SnipeInitIdle
    /\ CopyInitIdle

TargetsNext ==
    \/ \E id \in SniperIds, i \in 1..MaxTargets : ScanPick(id, i)
    \/ ScanNextTarget
    \/ \E outcome \in IoOutcomes, token_info \in TokenInfoSamples :
          CheckTokenOpportunity(outcome, token_info)
    \/ \E outcome \in SwapOutcomes : ExecuteSnipeSwap(outcome)
    \/ \E io \in IoOutcomes : RecordSnipe(io)
    \/ MonitorLoop
    \/ \E outcome \in IoOutcomes, answer \in PriceAnswers, price \in MonitorPrices :
          MonitorPrice(outcome, answer, price)
    \/ \E outcome \in SwapOutcomes : ExecuteSellSwap(outcome)
    \/ \E io \in IoOutcomes : GetBuyPrice(io)
    \/ \E io \in IoOutcomes : UpdateSnipeRecord(io)
    \/ \E id \in SniperIds : StopSniper(id)
    \/ SniperReturn
    \/ SniperServiceStop

SpecTargets == TargetsInit /\ [][TargetsNext]_vars

(***************************************************************************)
(* The scan task beside a sell monitor: _token_scanning_loop (lines        *)
(* 252-270) starts a new cycle every 100 ms whether or not a monitor task  *)
(* of an earlier snipe exists.                                             *)
(***************************************************************************)
\* _scan_for_opportunities, lines 276-282, while a monitor task exists
ScanPickBesideMonitor(id, i) ==
    /\ sn_running
    /\ scan.pc = "idle"
    /\ monitor.pc # "none"
    /\ Len(snipe_records) < MaxRecords
    /\ id \in active_snipers
    /\ sniper_config[id].is_running
    /\ i \in 1..Len(sniper_config[id].target_tokens)
    /\ scan' = [ScanIdle EXCEPT !.pc = "info", !.sniper_id = id,
                                 !.token_mint = sniper_config[id].target_tokens[i],
                                 !.tok = i, !.registered = TRUE]
    /\ UNCHANGED <<monitor, sniper_vars, order_vars, pl_vars, md_vars, svc_vars, go_vars, copy_vars>>

PositionsNext ==
    \/ \E id \in SniperIds, i \in 1..MaxTargets : ScanPick(id, i)
    \/ \E id \in SniperIds, i \in 1..MaxTargets : ScanPickBesideMonitor(id, i)
    \/ \E outcome \in IoOutcomes, token_info \in TokenInfoSamples :
          CheckTokenOpportunity(outcome, token_info)
    \/ \E outcome \in SwapOutcomes : ExecuteSnipeSwap(outcome)
    \/ \E io \in IoOutcomes : RecordSnipe(io)
    \/ MonitorLoop
    \/ \E outcome \in IoOutcomes, answer \in PriceAnswers, price \in MonitorPrices :
          MonitorPrice(outcome, answer, price)
    \/ \E outcome \in SwapOutcomes : ExecuteSellSwap(outcome)
    \/ \E io \in IoOutcomes : GetBuyPrice(io)
    \/ \E io \in IoOutcomes : UpdateSnipeRecord(io)
    \/ \E id \in SniperIds : StopSniper(id)
    \/ SniperReturn
    \/ SniperServiceStop

SpecPositions == SnipeInit /\ [][PositionsNext]_vars

(***************************************************************************)
(* The copy-trade monitoring task (src/services/copy_trade_service.py):    *)
(* _check_source_wallet_trades, _should_copy_trade, _copy_trade, and       *)
(* AddTraderToCopy.  Times are seconds; allocation_percentage is in        *)
(* percent (0.5 -> 50) and the amount handed to execute_swap and           *)
(* max_position_size are in hundredths of a unit.                          *)
(***************************************************************************)
\* current_time - last_trade_time < 3600
HourSeconds == 3600

AllocationSamples == {50, 100}
\* the trades the source wallet's activity can show: timestamp 0 is also what
\* trade.get("timestamp", 0) gives a trade without one; amount 1 is below the
\* session's minimum, amount 4 is above its position limit at either allocation
TradeSamples == [timestamp : {0, 100000}, amount : {1, 2, 4}]

\* the copy_trade_config dictionary of StartCopyTrading (lines 64-81)
NewCopyConfig(allocation) ==
    [is_running |-> TRUE, allocation_percentage |-> allocation,
     max_position_size |-> 150, min_trade_amount |-> 2, max_trades_per_hour |-> 1,
     copied_trades |-> 0, trades_this_hour |-> 0, last_trade_time |-> 0]

CopyInit ==
    /\ OrderInit
    /\ solana_manager = "None"
    /\ PlInitIdle
    /\ MdInitIdle
    /\ SvcInitIdle
    /\ GoInitIdle
    /\ SniperInitIdle
    /\ SnipeInitIdle
    /\ copy_config \in {NewCopyConfig(a) : a \in AllocationSamples}
    /\ active_copy_traders = {1}
    /\ copy_task = CopyTaskIdle
    /\ copy_records = << >>
    /\ clock = [now |-> ClockStart, ticks |-> 0]

\* time passes
Tick(d) ==
    /\ clock.ticks < MaxTicks
    /\ clock' = [now |-> clock.now + d, ticks |-> clock.ticks + 1]
    /\ UNCHANGED <<copy_config, active_copy_traders, copy_task, copy_records,
                   order_vars, pl_vars, md_vars, svc_vars, go_vars, sniper_vars, snipe_vars>>

\* a timestamp test that also lets through a trade as old as the last copy
TradeIsNewer_or_equal(trade_time, last_trade_time) == trade_time >= last_trade_time

\* line 323: if trade_time <= last_trade_time: return False
TradeIsNewer(trade_time, last_trade_time) == ~(trade_time <= last_trade_time)

\* an hour test that still counts the second T + 3600 to the old hour
WithinHour_inclusive(current_time, last_trade_time) ==
    current_time - last_trade_time <= HourSeconds

\* line 328: if current_time - last_trade_time < 3600
WithinHour(current_time, last_trade_time) ==
    current_time - last_trade_time < HourSeconds

\* _should_copy_trade, lines 314-344: the answer, what the rate check did,
\* and the dictionary after the call
_should_copy_trade(cfg, trade, current_time) ==
    IF ~TradeIsNewer(trade.timestamp, cfg.last_trade_time)
    THEN [result |-> FALSE, rate |-> "not_reached", config |-> cfg]
    ELSE IF WithinHour(current_time, cfg.last_trade_time)
              /\ cfg.trades_this_hour >= cfg.max_trades_per_hour
    THEN [result |-> FALSE, rate |-> "rejected", config |-> cfg]
    ELSE LET after == IF WithinHour(current_time, cfg.last_trade_time)
                      THEN cfg
                      ELSE [cfg EXCEPT !.trades_this_hour = 0]
         IN [result |-> ~(trade.amount < cfg.min_trade_amount),
             rate |-> "admitted", config |-> after]

\* _should_copy_trade, lines 317 and 342-344: the session's key is gone from
\* active_copy_traders; the KeyError is caught and the answer is False
KeyErrorAnswer(cfg) == [result |-> FALSE, rate |-> "not_reached", config |-> cfg]

\* a copy amount without the position size limit
CopyAmount_uncapped(original_amount, cfg) ==
    original_amount * cfg.allocation_percentage

\* _copy_trade, lines 352-357
CopyAmount(original_amount, cfg) ==
    IF original_amount * cfg.allocation_percentage > cfg.max_position_size
    THEN cfg.max_position_size
    ELSE original_amount * cfg.allocation_percentage

\* _check_source_wallet_trades, lines 291-296: the source wallet's recent
\* trades are fetched
GetRecentTrades(recent_trades) ==
    /\ copy_task.pc = "sleep"
    /\ copy_task.cycles < MaxCycles
    /\ 1 \in active_copy_traders
    /\ copy_config.is_running
    /\ copy_task' = [copy_task EXCEPT !.pc = "loop", !.cycles = @ + 1,
                                      !.batch = recent_trades,
                                      !.last_at_fetch = copy_config.last_trade_time]
    /\ UNCHANGED <<copy_config, active_copy_traders, copy_records, clock,
                   order_vars, pl_vars, md_vars, svc_vars, go_vars, sniper_vars, snipe_vars>>

\* lines 296-299 with _should_copy_trade and lines 352-367 of _copy_trade:
\* the next trade of the batch is judged and, if admitted, submitted
ConsiderTrade ==
    /\ copy_task.pc = "loop"
    /\ copy_task.batch # << >>
    /\ LET trade == Head(copy_task.batch)
           answer == IF 1 \in active_copy_traders
                     THEN _should_copy_trade(copy_config, trade, clock.now)
                     ELSE KeyErrorAnswer(copy_config)
           decision == [made |-> TRUE, trade |-> trade, current_time |-> clock.now,
                        last_trade_time |-> copy_config.last_trade_time,
                        trades_this_hour |-> copy_config.trades_this_hour,
                        max_trades_per_hour |-> copy_config.max_trades_per_hour,
                        rate |-> answer.rate, result |-> answer.result]
       IN /\ copy_config' = answer.config
          /\ copy_task' = IF answer.result
                          THEN [copy_task EXCEPT !.pc = "swap", !.batch = Tail(@),
                                   !.trade = trade, !.decision = decision,
                                   !.copy_amount = CopyAmount(trade.amount, answer.config)]
                          ELSE [copy_task EXCEPT !.batch = Tail(@), !.trade = trade,
                                   !.decision = decision]
    /\ UNCHANGED <<active_copy_traders, copy_records, clock,
                   order_vars, pl_vars, md_vars, svc_vars, go_vars, sniper_vars, snipe_vars>>

\* line 296: the batch is exhausted; _monitoring_loop sleeps (line 265)
BatchDone ==
    /\ copy_task.pc = "loop"
    /\ copy_task.batch = << >>
    /\ copy_task' = [CopyTaskIdle EXCEPT !.cycles = copy_task.cycles]
    /\ UNCHANGED <<copy_config, active_copy_traders, copy_records, clock,
                   order_vars, pl_vars, md_vars, svc_vars, go_vars, sniper_vars, snipe_vars>>

\* _copy_trade, lines 360-369 and 403-404: execute_swap answered or raised
CopySwap(outcome) ==
    /\ copy_task.pc = "swap"
    /\ copy_task' = IF outcome = "raise"
                    THEN [CopyTaskIdle EXCEPT !.pc = "loop", !.cycles = copy_task.cycles,
                                              !.batch = copy_task.batch,
                                              !.last_at_fetch = copy_task.last_at_fetch]
                    ELSE [copy_task EXCEPT !.pc = "record", !.swap = outcome]
    /\ UNCHANGED <<copy_config, active_copy_traders, copy_records, clock,
                   order_vars, pl_vars, md_vars, svc_vars, go_vars, sniper_vars, snipe_vars>>

\* _copy_trade, lines 369-404: the INSERT of _record_copy_trade answered;
\* the statistics of a successful copy.  A row keeps the source trade's
\* timestamp, the amount, the success flag and, for a successful copy, the
\* time of the INSERT (the timestamp column, line 456)
RecordCopyTrade(io) ==
    /\ copy_task.pc = "record"
    /\ LET success == execute_swap(copy_task.swap).success
       IN IF io = "raise"
          THEN UNCHANGED <<copy_records, copy_config>>
          ELSE /\ copy_records' = Append(copy_records,
                      [timestamp |-> copy_task.trade.timestamp,
                       amount |-> copy_task.copy_amount, success |-> success,
                       copied_at |-> IF success THEN clock.now ELSE 0])
               /\ copy_config' = IF success
                                 THEN [copy_config EXCEPT !.copied_trades = @ + 1,
                                          !.trades_this_hour = @ + 1,
                                          !.last_trade_time = clock.now]
                                 ELSE copy_config
    /\ copy_task' = [CopyTaskIdle EXCEPT !.pc = "loop", !.cycles = copy_task.cycles,
                                         !.batch = copy_task.batch,
                                         !.last_at_fetch = copy_task.last_at_fetch]
    /\ UNCHANGED <<active_copy_traders, clock, order_vars, pl_vars, md_vars, svc_vars, go_vars, sniper_vars, snipe_vars>>

\* AddTraderToCopy, lines 158-192, for the registered session and a valid
\* source wallet
AddTraderToCopy(allocation) ==
    /\ 1 \in active_copy_traders
    /\ copy_config' = [copy_config EXCEPT !.allocation_percentage = allocation]
    /\ UNCHANGED <<active_copy_traders, copy_task, copy_records, clock,
                   order_vars, pl_vars, md_vars, svc_vars, go_vars, sniper_vars, snipe_vars>>

CopyNext ==
    \/ \E d \in {HourSeconds - 1, HourSeconds} : Tick(d)
    \/ \E recent_trades \in SeqsUpTo(TradeSamples, MaxBatch) : GetRecentTrades(recent_trades)
    \/ ConsiderTrade
    \/ BatchDone
    \/ \E outcome \in SwapOutcomes : CopySwap(outcome)
    \/ \E io \in IoOutcomes : RecordCopyTrade(io)
    \/ \E allocation \in AllocationSamples : AddTraderToCopy(allocation)

SpecCopy == CopyInit /\ [][CopyNext]_vars

(***************************************************************************)
(* The copy-trade session under the requests that end it, with batches of  *)
(* several trades whose timestamps lie in the past, and with the caps a    *)
(* request can carry: StopCopyTrading, RemoveTraderToCopy, and the         *)
(* monitoring task of the section above.                                   *)
(***************************************************************************)
\* StopCopyTrading, lines 104-131: the flag is cleared on the dictionary and
\* the key deleted (an unknown id is answered without a change)
StopCopyTrading ==
    /\ 1 \in active_copy_traders
    /\ copy_config' = [copy_config EXCEPT !.is_running = FALSE]
    /\ active_copy_traders' = active_copy_traders \ {1}
    /\ UNCHANGED <<copy_task, copy_records, clock,
                   order_vars, pl_vars, md_vars, svc_vars, go_vars, sniper_vars, snipe_vars>>

\* RemoveTraderToCopy, lines 194-220: the flag is cleared; the key stays
RemoveTraderToCopy ==
    /\ 1 \in active_copy_traders
    /\ copy_config' = [copy_config EXCEPT !.is_running = FALSE]
    /\ UNCHANGED <<active_copy_traders, copy_task, copy_records, clock,
                   order_vars, pl_vars, md_vars, svc_vars, go_vars, sniper_vars, snipe_vars>>

\* request.max_trades_per_hour is stored as sent (line 72); 0 is the value
\* of an unset field
CapSamples == {0, 1, 2}
\* trades of the source wallet made before the clock's first reading
PastTrades == [timestamp : {100, 200}, amount : {2}]

\* what one fetch of the wallet's activity returns: each trade once, in
\* either order
FetchedBatches ==
    {b \in SeqsUpTo(PastTrades, MaxFetched) :
        \A i, j \in 1..Len(b) : i # j => b[i] # b[j]}

ReplayInit ==
    /\ OrderInit
    /\ solana_manager = "None"
    /\ PlInitIdle
    /\ MdInitIdle
    /\ SvcInitIdle
    /\ GoInitIdle
    /\ SniperInitIdle
    /\ SnipeInitIdle
    /\ copy_config \in {[NewCopyConfig(100) EXCEPT !.max_trades_per_hour = c] :
                            c \in CapSamples}
    /\ active_copy_traders = {1}
    /\ copy_task = CopyTaskIdle
    /\ copy_records = << >>
    /\ clock = [now |-> ClockStart, ticks |-> 0]

ReplayNext ==
    \/ \E d \in {HourSeconds - 1, HourSeconds} : Tick(d)
    \/ \E recent_trades \in FetchedBatches : GetRecentTrades(recent_trades)
    \/ ConsiderTrade
    \/ BatchDone
    \/ \E outcome \in SwapOutcomes : CopySwap(outcome)
    \/ \E io \in IoOutcomes : RecordCopyTrade(io)
    \/ \E allocation \in AllocationSamples : AddTraderToCopy(allocation)
    \/ StopCopyTrading
    \/ RemoveTraderToCopy

SpecReplay == ReplayInit /\ [][ReplayNext]_vars

(***************************************************************************)
(* The two registries under their requests: active_snipers with            *)
(* StartSniper, StopSniper, AddTargetToken and RemoveTargetToken, and      *)
(* active_copy_traders with StartCopyTrading, StopCopyTrading,             *)
(* AddTraderToCopy and RemoveTraderToCopy.                                 *)
(***************************************************************************)
CopyWallets == {"addr_ok", "addr_short"}
\* requests with an allocation of 0.5; AddTraderToCopy can change it later
CopyRequests ==
    [source_wallet : CopyWallets, target_wallet : CopyWallets,
     allocation_percentage : {50}]

\* CopyTradeService._validate_wallet_address, lines 406-419
CopyTradeService_validate_wallet_address(wallet_address) ==
    IF Len(AddressText(wallet_address)) # AddressLen
    THEN FALSE
    ELSE b58decode_ok(AddressText(wallet_address))

\* StartCopyTrading, lines 43-102, for the first session of the service:
\* the two wallets are validated, the configuration is stored, and only
\* then the dictionary is put into active_copy_traders; a rejected request
\* and a failed INSERT leave the service as it was
StartCopyTrading(r, io) ==
    /\ copy_config = NoCopyConfig
    /\ IF \/ ~CopyTradeService_validate_wallet_address(r.source_wallet)
          \/ ~CopyTradeService_validate_wallet_address(r.target_wallet)
          \/ io = "raise"
       THEN UNCHANGED <<copy_config, active_copy_traders>>
       ELSE /\ copy_config' = NewCopyConfig(r.allocation_percentage)
            /\ active_copy_traders' = active_copy_traders \cup {1}
    /\ UNCHANGED <<copy_task, copy_records, clock,
                   order_vars, pl_vars, md_vars, svc_vars, go_vars, sniper_vars, snipe_vars>>

RegistryInit ==
    /\ OrderInit
    /\ solana_manager = "None"
    /\ PlInitIdle
    /\ MdInitIdle
    /\ SvcInitIdle
    /\ GoInitIdle
    /\ SniperInitIdle
    /\ SnipeInitIdle
    /\ CopyInitIdle

RegistryNext ==
    \/ \E r \in SniperRequests : StartSniper(r)
    \/ \E id \in SniperIds, io \in IoOutcomes : _store_sniper_config(id, io)
    \/ \E id \in RequestSniperIds : StopSniper(id)
    \/ \E id \in RequestSniperIds, t \in SniperTokens : AddTargetToken(id, t)
    \/ \E id \in RequestSniperIds, t \in SniperTokens : RemoveTargetToken(id, t)
    \/ SniperReturn
    \/ \E r \in CopyRequests, io \in IoOutcomes : StartCopyTrading(r, io)
    \/ StopCopyTrading
    \/ \E allocation \in AllocationSamples : AddTraderToCopy(allocation)
    \/ RemoveTraderToCopy

SpecRegistry == RegistryInit /\ [][RegistryNext]_vars

(***************************************************************************)
(* MarketDataService.GetTokenPrice (src/services/market_data_service.py,   *)
(* lines 37-84) with _fetch_token_price and its three sources (lines       *)
(* 249-382), for one token and cluster.                                    *)
(***************************************************************************)
\* what an aggregator's HTTP API does with the request: it knows the token's
\* price, it does not (status other than 200 or the mint missing from the
\* body), or the request raises
SourceAnswers == {"price", "unavailable", "raise"}
JupiterPrice == 1
RaydiumPrice == 2

\* _get_jupiter_price / _get_raydium_price, lines 279-358: the dictionary
\* returned; an exception is caught inside and reported as a failure
_get_aggregator_price(name, answer, price) ==
    IF answer = "price"
    THEN [success |-> TRUE, data |-> [present |-> TRUE, price |-> price, source |-> name]]
    ELSE [success |-> FALSE, data |-> NoPrice]

\* _get_solana_price, lines 360-382: a placeholder that queries nothing and
\* returns success with price 0.0
_get_solana_price ==
    [success |-> TRUE, data |-> [present |-> TRUE, price |-> 0, source |-> "solana"]]

\* lines 37-45: a GetTokenPrice call arrives and asks the cache
GetTokenPrice ==
    /\ gtp.pc \in {"none", "done"}
    /\ gtp' = [NoPriceCall EXCEPT !.pc = "cache"]
    /\ UNCHANGED <<price_cache, md_running, price_subscribers, sub,
                   order_vars, pl_vars, go_vars, sniper_vars, snipe_vars, copy_vars,
                   svc_vars>>

\* lines 45-61: the cache answered: a hit is returned, a miss goes to
\* _fetch_token_price, whose first await is the Jupiter request
PriceCacheGet(io, how) ==
    /\ gtp.pc = "cache"
    /\ gtp' = IF io = "raise"
              THEN [gtp EXCEPT !.pc = "done", !.outcome = AbortLast("INTERNAL", how)]
              ELSE IF price_cache.present
              THEN [gtp EXCEPT !.pc = "done", !.hit = TRUE, !.outcome = "OK",
                               !.price = price_cache.price]
              ELSE [gtp EXCEPT !.pc = "jupiter"]
    /\ UNCHANGED <<price_cache, md_running, price_subscribers, sub,
                   order_vars, pl_vars, go_vars, sniper_vars, snipe_vars, copy_vars,
                   svc_vars>>

\* _fetch_token_price, lines 252-255: Jupiter answered
JupiterAnswer(answer) ==
    /\ gtp.pc = "jupiter"
    /\ LET jupiter_price == _get_aggregator_price("jupiter", answer, JupiterPrice)
       IN gtp' = IF jupiter_price.success
                 THEN [gtp EXCEPT !.pc = "set", !.queried = Append(@, "jupiter"),
                                  !.fetched = jupiter_price.data,
                                  !.known = @ \cup {"jupiter"}]
                 ELSE [gtp EXCEPT !.pc = "raydium", !.queried = Append(@, "jupiter")]
    /\ UNCHANGED <<price_cache, md_running, price_subscribers, sub,
                   order_vars, pl_vars, go_vars, sniper_vars, snipe_vars, copy_vars,
                   svc_vars>>

\* _fetch_token_price, lines 257-270: Raydium answered; when it failed too,
\* _get_solana_price runs without suspending.  on_chain tells whether the
\* chain knows a price for the token, which the placeholder never asks
RaydiumAnswer(answer, on_chain, how) ==
    /\ gtp.pc = "raydium"
    /\ LET raydium_price == _get_aggregator_price("raydium", answer, RaydiumPrice)
           solana_price == _get_solana_price
       IN gtp' = IF raydium_price.success
                 THEN [gtp EXCEPT !.pc = "set", !.queried = Append(@, "raydium"),
                                  !.fetched = raydium_price.data,
                                  !.known = @ \cup {"raydium"}]
                 ELSE IF solana_price.success
                 THEN [gtp EXCEPT !.pc = "set", !.queried = @ \o <<"raydium", "solana">>,
                                  !.fetched = solana_price.data,
                                  !.known = IF on_chain THEN @ \cup {"solana"} ELSE @]
                 ELSE [gtp EXCEPT !.pc = "done", !.queried = @ \o <<"raydium", "solana">>,
                                  !.outcome = AbortInTry("NOT_FOUND", how)]
    /\ UNCHANGED <<price_cache, md_running, price_subscribers, sub,
                   order_vars, pl_vars, go_vars, sniper_vars, snipe_vars, copy_vars,
                   svc_vars>>

\* lines 63-78 and 82-84: the fetched price is written to the cache with a
\* time to live of 60 seconds and returned; a failed write is an internal error
PriceCacheSet(io, how) ==
    /\ gtp.pc = "set"
    /\ IF io = "raise"
       THEN /\ gtp' = [gtp EXCEPT !.pc = "done", !.outcome = AbortLast("INTERNAL", how)]
            /\ UNCHANGED price_cache
       ELSE /\ gtp' = [gtp EXCEPT !.pc = "done", !.outcome = "OK",
                                  !.price = gtp.fetched.price]
            /\ price_cache' = gtp.fetched
    /\ UNCHANGED <<md_running, price_subscribers, sub,
                   order_vars, pl_vars, go_vars, sniper_vars, snipe_vars, copy_vars,
                   svc_vars>>

\* line 68: the cache entry expires
PriceCacheExpire ==
    /\ price_cache.present
    /\ price_cache' = NoPrice
    /\ UNCHANGED <<gtp, md_running, price_subscribers, sub,
                   order_vars, pl_vars, go_vars, sniper_vars, snipe_vars, copy_vars,
                   svc_vars>>

(***************************************************************************)
(* MarketDataService.SubscribeToPriceUpdates (lines 182-226), start and    *)
(* stop (lines 27-35): the streams of Streams subscribe to the same token  *)
(* and cluster, each with its own context.                                 *)
(***************************************************************************)
\* a list with c left where it is
Unsubscribe_kept(contexts, c) == contexts

\* lines 218-221: the context is removed from the key's list
Unsubscribe(contexts, c) == ListRemove(contexts, c)

\* line 198: while self.running and context.is_active()
Serving(c) == md_running /\ sub[c].active

\* the finally block of lines 217-223
SubEnded(c) ==
    /\ sub' = [sub EXCEPT ![c].pc = "ended"]
    /\ price_subscribers' =
          IF price_subscribers.has_key /\ InList(c, price_subscribers.contexts)
          THEN [price_subscribers EXCEPT !.contexts = Unsubscribe(@, c)]
          ELSE price_subscribers

\* _fetch_token_price, lines 249-277, as one answer: the first source in
\* the fallback order that has a price
_fetch_token_price(jupiter, raydium) ==
    IF _get_aggregator_price("jupiter", jupiter, JupiterPrice).success
    THEN _get_aggregator_price("jupiter", jupiter, JupiterPrice)
    ELSE IF _get_aggregator_price("raydium", raydium, RaydiumPrice).success
    THEN _get_aggregator_price("raydium", raydium, RaydiumPrice)
    ELSE _get_solana_price

\* lines 27-29 and 32-34
MdStart ==
    /\ ~md_running
    /\ md_running' = TRUE
    /\ UNCHANGED <<price_cache, gtp, price_subscribers, sub,
                   order_vars, pl_vars, go_vars, sniper_vars, snipe_vars, copy_vars,
                   svc_vars>>

MdStop ==
    /\ md_running
    /\ md_running' = FALSE
    /\ UNCHANGED <<price_cache, gtp, price_subscribers, sub,
                   order_vars, pl_vars, go_vars, sniper_vars, snipe_vars, copy_vars,
                   svc_vars>>

\* lines 184-200: the call registers its context and tests the loop
\* condition for the first time
SubscribeToPriceUpdates(c) ==
    /\ sub[c].pc = "none"
    /\ LET registered == [has_key |-> TRUE,
                          contexts |-> Append(price_subscribers.contexts, c)]
       IN IF Serving(c)
          THEN /\ price_subscribers' = registered
               /\ sub' = [sub EXCEPT ![c].pc = "fetch"]
          ELSE /\ price_subscribers' =
                     [registered EXCEPT !.contexts = Unsubscribe(@, c)]
               /\ sub' = [sub EXCEPT ![c].pc = "ended"]
    /\ UNCHANGED <<price_cache, gtp, md_running,
                   order_vars, pl_vars, go_vars, sniper_vars, snipe_vars, copy_vars,
                   svc_vars>>

\* lines 200-210: the fetch returned; a successful one is yielded
SubFetched(c, jupiter, raydium) ==
    /\ sub[c].pc = "fetch"
    /\ sub' = IF _fetch_token_price(jupiter, raydium).success
              THEN [sub EXCEPT ![c].pc = "yield"]
              ELSE [sub EXCEPT ![c].pc = "sleep"]
    /\ UNCHANGED <<price_cache, gtp, md_running, price_subscribers,
                   order_vars, pl_vars, go_vars, sniper_vars, snipe_vars, copy_vars,
                   svc_vars>>

\* lines 210-216: the generator is resumed after its yield and sleeps, or
\* an exception is thrown into it at the yield
SubResumed(c, io) ==
    /\ sub[c].pc = "yield"
    /\ IF io = "raise"
       THEN SubEnded(c)
       ELSE /\ sub' = [sub EXCEPT ![c].pc = "sleep", ![c].emitted = 1]
            /\ UNCHANGED price_subscribers
    /\ UNCHANGED <<price_cache, gtp, md_running,
                   order_vars, pl_vars, go_vars, sniper_vars, snipe_vars, copy_vars,
                   svc_vars>>

\* lines 213 and 198: the interval is over and the loop condition is tested
SubSlept(c) ==
    /\ sub[c].pc = "sleep"
    /\ IF Serving(c)
       THEN /\ sub' = [sub EXCEPT ![c].pc = "fetch"]
            /\ UNCHANGED price_subscribers
       ELSE SubEnded(c)
    /\ UNCHANGED <<price_cache, gtp, md_running,
                   order_vars, pl_vars, go_vars, sniper_vars, snipe_vars, copy_vars,
                   svc_vars>>

\* the caller goes away: context.is_active() turns False
CallerInactive(c) ==
    /\ sub[c].pc \in {"fetch", "yield", "sleep"}
    /\ sub[c].active
    /\ sub' = [sub EXCEPT ![c].active = FALSE]
    /\ UNCHANGED <<price_cache, gtp, md_running, price_subscribers,
                   order_vars, pl_vars, go_vars, sniper_vars, snipe_vars, copy_vars,
                   svc_vars>>

\* the call is cancelled while the generator is suspended: CancelledError
\* (or GeneratorExit at the yield) passes "except Exception" and runs the
\* finally block
SubCancelled(c) ==
    /\ sub[c].pc \in {"fetch", "yield", "sleep"}
    /\ SubEnded(c)
    /\ UNCHANGED <<price_cache, gtp, md_running,
                   order_vars, pl_vars, go_vars, sniper_vars, snipe_vars, copy_vars,
                   svc_vars>>

MdInit ==
    /\ OrderInit
    /\ solana_manager = "None"
    /\ PlInitIdle
    /\ GoInitIdle
    /\ SniperInitIdle
    /\ SnipeInitIdle
    /\ CopyInitIdle
    /\ SvcInitIdle
    /\ MdInitIdle

MdNext ==
    \/ GetTokenPrice
    \/ \E io \in IoOutcomes, how \in AbortSemantics : PriceCacheGet(io, how)
    \/ \E answer \in SourceAnswers : JupiterAnswer(answer)
    \/ \E answer \in SourceAnswers, on_chain \in BOOLEAN, how \in AbortSemantics :
          RaydiumAnswer(answer, on_chain, how)
    \/ \E io \in IoOutcomes, how \in AbortSemantics : PriceCacheSet(io, how)
    \/ PriceCacheExpire
    \/ MdStart
    \/ MdStop
    \/ \E c \in Streams : SubscribeToPriceUpdates(c)
    \/ \E c \in Streams, jupiter \in SourceAnswers, raydium \in SourceAnswers :
          SubFetched(c, jupiter, raydium)
    \/ \E c \in Streams, io \in IoOutcomes : SubResumed(c, io)
    \/ \E c \in Streams : SubSlept(c)
    \/ \E c \in Streams : CallerInactive(c)
    \/ \E c \in Streams : SubCancelled(c)

SpecMD == MdInit /\ [][MdNext]_vars

(***************************************************************************)
(* The scan task as a loop of scan cycles: _token_scanning_loop (lines     *)
(* 252-270) and the iteration of _scan_for_opportunities (lines 272-285)   *)
(* over self.active_snipers while StartSniper and StopSniper change it.    *)
(* Keys enter the dictionary in the order of their ids and never return,   *)
(* so the dictionary's order is the order of the ids.                      *)
(***************************************************************************)
\* next() of the iterator of active_snipers.items(): the iterator remembers
\* the size of the dictionary at its creation and its position; a changed
\* size raises RuntimeError("dictionary changed size during iteration")
DictNext(keys, size, pos) ==
    IF Cardinality(keys) # size
    THEN [kind |-> "RuntimeError", key |-> 0]
    ELSE IF {k \in keys : k > pos} = {}
    THEN [kind |-> "StopIteration", key |-> 0]
    ELSE [kind |-> "item",
          key |-> CHOOSE k \in keys : k > pos /\ \A j \in keys : j > pos => k <= j]

\* an except branch that leaves the loop
CycleFailed_break(c) ==
    [c EXCEPT !.pc = "ended", !.failed = TRUE, !.failures = 1]

\* lines 284-285, then the sleep of line 261: the exception of a cycle is
\* logged inside _scan_for_opportunities and the loop goes on
CycleFailed(c) ==
    [c EXCEPT !.pc = "sleep", !.failed = TRUE, !.failures = 1]

\* lines 276-282 from the iterator's position up to the next await: sessions
\* that are not running or have no target are passed without suspending
RECURSIVE ScanFrom(_, _)
ScanFrom(c, keys) ==
    LET n == DictNext(keys, c.size, c.pos)
    IN IF n.kind = "RuntimeError"
       THEN CycleFailed(c)
       ELSE IF n.kind = "StopIteration"
       THEN [c EXCEPT !.pc = "sleep"]
       ELSE IF ~sniper_config[n.key].is_running
       THEN ScanFrom([c EXCEPT !.pos = n.key], keys)
       ELSE IF sniper_config[n.key].target_tokens = << >>
       THEN ScanFrom([c EXCEPT !.pos = n.key, !.seen = @ \cup {n.key}], keys)
       ELSE [c EXCEPT !.pc = "check", !.pos = n.key, !.cur = n.key, !.tok = 1]

\* lines 255-258 and 276: the loop condition holds and a cycle begins
CycleStart ==
    /\ cycle.pc = "sleep"
    /\ sn_running
    /\ cycle.cycles < MaxCycles
    /\ cycle' = ScanFrom([cycle EXCEPT !.size = Cardinality(active_snipers),
                                       !.pos = 0, !.cur = 0, !.tok = 0, !.seen = {},
                                       !.at_start = active_snipers,
                                       !.failed = FALSE, !.cycles = @ + 1],
                         active_snipers)
    /\ UNCHANGED <<status_rpc, sn_running, sniper_vars,
                   order_vars, pl_vars, md_vars, go_vars, snipe_vars, copy_vars>>

\* lines 281-282 and 287-297: _check_token_opportunity returned for the
\* current target (its own exceptions are logged inside); the next target
\* of the session, or the next session
TokenChecked(io) ==
    /\ cycle.pc = "check"
    /\ cycle' = IF cycle.tok < Len(sniper_config[cycle.cur].target_tokens)
                THEN [cycle EXCEPT !.tok = @ + 1]
                ELSE ScanFrom([cycle EXCEPT !.seen = @ \cup {cycle.cur}, !.cur = 0,
                                            !.tok = 0],
                              active_snipers)
    /\ UNCHANGED <<status_rpc, sn_running, sniper_vars,
                   order_vars, pl_vars, md_vars, go_vars, snipe_vars, copy_vars>>

\* start() (lines 30-34) has run: running is set and the scan task sleeps
\* before its first cycle; no session yet
ScanInit ==
    /\ OrderInit
    /\ solana_manager = "None"
    /\ PlInitIdle
    /\ MdInitIdle
    /\ GoInitIdle
    /\ SniperInitIdle
    /\ SnipeInitIdle
    /\ CopyInitIdle
    /\ status_rpc = NoStatus
    /\ sn_running = TRUE
    /\ cycle = [NoCycle EXCEPT !.pc = "sleep"]

ScanNext ==
    \/ \E r \in SniperRequests : StartSniper(r)
    \/ \E id \in SniperIds, io \in IoOutcomes : _store_sniper_config(id, io)
    \/ \E id \in SniperIds : StopSniper(id)
    \/ SniperReturn
    \/ CycleStart
    \/ \E io \in IoOutcomes : TokenChecked(io)
    \/ SniperServiceStop

SpecScan == ScanInit /\ [][ScanNext]_vars

Init == OrderInit /\ PlInitIdle /\ ExtInitIdle
Next == OrderNext
Spec == Init /\ [][Next]_vars

PlNext == \E io \in IoOutcomes : CalculateProfitLoss(io)
SpecPL == PlInit /\ [][PlNext]_vars


(***************************************************************************)
(* Properties of the order execution pipeline                              *)
(***************************************************************************)
IsPlace(p) == op[p] = "PlaceOrder"
IsCancel(p) == op[p] = "CancelOrder"
Returned(p) == pc[p] = "done"
OrderOf(p) == order[p].order_id

\* C1: the persisted status of an order changes only from pending to executed,
\* failed or cancelled (after its creation as pending); an executed, failed or
\* cancelled order never changes status again.
C1_StatusTransitions ==
    [][\A id \in OrderIds :
          db'[id].status # db[id].status =>
              \/ db[id].status = ABSENT /\ db'[id].status = PENDING
              \/ db[id].status = PENDING
                   /\ db'[id].status \in {EXECUTED, FAILED, CANCELLED}]_vars

\* C2: a CancelOrder called for an order whose persisted status is executed,
\* failed or cancelled returns failure and makes no UPDATE of the order.
C2_CancelNonPendingFails ==
    \A p \in Handlers :
        (IsCancel(p) /\ obs[p].persisted_at_call = "terminal") =>
            /\ obs[p].updates = 0
            /\ Returned(p) => ~resp[p].success

\* the input constraints of PlaceOrder, stated on the request itself
WellFormedAddress(a) ==
    /\ Len(AddressText(a)) = AddressLen
    /\ \A i \in 1..Len(AddressText(a)) : AddressText(a)[i] \in Base58Alphabet

RequestInvalid(o) ==
    \/ ~WellFormedAddress(o.token_mint)
    \/ ~WellFormedAddress(o.wallet_address)
    \/ ~(o.amount > 0)
    \/ ~(o.slippage > 0 /\ o.slippage <= MaxSlippagePct)

ValidationReasons ==
    {<<"Invalid token mint address">>, <<"Amount must be positive">>,
     <<"Slippage must be between 0 and 50%">>, <<"Invalid wallet address">>}

NoTrace(id) ==
    /\ db[id] = NoRow
    /\ cache[id] = NoEntry
    /\ chain_sends[id] = 0

WritesSucceeded(p) ==
    /\ obs[p].inserts = 1
    /\ obs[p].updates = 1
    /\ resp[p].message[1] # "Internal error: "

\* C4: a PlaceOrder that passed validation and the risk check, whose
\* send_transaction returned success (and whose writes all succeeded), returns
\* success with a non-empty signature and leaves the order persisted as executed.
C4_SettledOrderExecuted ==
    \A p \in Handlers :
        (IsPlace(p) /\ Returned(p) /\ obs[p].accepted /\ obs[p].tx = "success"
            /\ WritesSucceeded(p)) =>
            /\ resp[p].success
            /\ resp[p].signature # ""
            /\ db[OrderOf(p)].status = EXECUTED

\* C5: once PlaceOrder has returned for an order that passed validation and
\* the risk check and whose row was created, the order is not left pending,
\* whatever the database and cache writes did.
C5_AcceptedOrderNotLeftPending ==
    \A p \in Handlers :
        (IsPlace(p) /\ Returned(p) /\ obs[p].accepted /\ obs[p].inserts = 1) =>
            /\ db[OrderOf(p)].status # PENDING
            /\ obs[p].updates = 1

\* C6: a PlaceOrder whose risk check denied the order has returned failure
\* with the denial reason, and its order has no row, no cache entry and no
\* chain-client call.
C6_RiskDenialLeavesNoTrace ==
    \A p \in Handlers :
        (IsPlace(p) /\ obs[p].risk = "denied") =>
            /\ Returned(p)
            /\ resp[p] = Failure(<<"Risk limit exceeded: ", check_order_risk("denied").reason>>)
            /\ obs[p].inserts = 0
            /\ NoTrace(OrderOf(p))

\* a valid request has been denied by the risk check
C6_Witness ==
    \E p \in Handlers :
        /\ IsPlace(p) /\ Returned(p)
        /\ ~RequestInvalid(order[p])
        /\ obs[p].risk = "denied"

\* C7: when send_transaction failed for an accepted order, PlaceOrder returns
\* failure with the underlying error, the order is persisted as failed, and
\* exactly one submission was made for it.
C7_FailedSubmissionPersisted ==
    \A p \in Handlers :
        (IsPlace(p) /\ Returned(p) /\ obs[p].accepted /\ obs[p].tx = "failure") =>
            /\ resp[p] = Failure(<<"Order execution failed: ", send_transaction("failure").error>>)
            /\ db[OrderOf(p)].status = FAILED
            /\ chain_sends[OrderOf(p)] = 1

\* C8: the persisted status of an order becomes cancelled only in the UPDATE of
\* a CancelOrder whose chain-side cancellation was attempted and reported
\* success; a CancelOrder whose cancellation reported failure returns failure
\* and makes no UPDATE (the order stays as it was).
C8_CancelOnlyAfterChainSuccess ==
    [][/\ \A id \in OrderIds :
            (db'[id].status = CANCELLED /\ db[id].status # CANCELLED) =>
                \E p \in Handlers :
                    /\ IsCancel(p) /\ pc[p] = "update_db"
                    /\ OrderOf(p) = id
                    /\ obs[p].cancel = "success"
       /\ \A p \in Handlers :
            (op'[p] = "CancelOrder" /\ obs'[p].cancel = "failure") =>
                /\ pc'[p] = "done"
                /\ ~resp'[p].success
                /\ obs'[p].updates = 0
                /\ order'[p].status = PENDING]_vars

\* a CancelOrder of a pending order whose cancellation succeeded has set the
\* order's persisted status to cancelled
C8_Witness ==
    \E p \in Handlers :
        /\ IsCancel(p) /\ Returned(p) /\ resp[p].success
        /\ obs[p].cancel = "success"
        /\ db[OrderOf(p)].status = CANCELLED

(***************************************************************************)
(* Properties of the profit/loss computation                               *)
(***************************************************************************)
RECURSIVE SumValue(_, _)
\* the sum of executed_amount x executed_price over the executed rows of
\* the given side
SumValue(table, side) ==
    IF table = << >>
    THEN 0
    ELSE (IF Head(table).status = EXECUTED /\ Head(table).order_type = side
          THEN Head(table).executed_amount * Head(table).executed_price
          ELSE 0) + SumValue(Tail(table), side)

\* C9: the profit _calculate_profit_loss returns (when its query succeeded) is
\* the sum of the sell proceeds minus the sum of the buy cost over the wallet's
\* executed orders.
C9_ProfitIsProceedsMinusCost ==
    (pl_result.computed /\ pl_query = "ok") =>
        pl_result.total_profit = SumValue(pl_orders, SELL) - SumValue(pl_orders, BUY)

\* C10: when the wallet's total invested amount is 0, the computation returns
\* a profit percentage of 0 and raises no error.
C10_ZeroInvestedGivesZeroPercent ==
    (pl_result.computed /\ SumValue(pl_orders, BUY) = 0) =>
        /\ pl_result.pct_num = 0
        /\ ~pl_result.raised

\* a wallet with executed sells and no buy value has been computed
C10_Witness ==
    /\ pl_result.computed
    /\ pl_query = "ok"
    /\ SumValue(pl_orders, BUY) = 0
    /\ SumValue(pl_orders, SELL) > 0
    /\ pl_result.total_profit > 0

(***************************************************************************)
(* Properties of GetOrders                                                 *)
(***************************************************************************)
\* the ids of the rows of the table that the request asks for
RequestedOrderIds(table, r) ==
    {table[i].order_id : i \in
        {j \in 1..Len(table) :
            /\ table[j].wallet_address = r.wallet_address
            /\ table[j].status = r.status
            /\ (r.start_time > 0 => table[j].timestamp >= r.start_time)
            /\ (r.end_time > 0 => table[j].timestamp <= r.end_time)}}

\* C11: a GetOrders call (whose query succeeded, without pagination) returns
\* exactly the orders of the requested wallet that match the status, start-time
\* and end-time filters, for every status including pending, and leaves the
\* orders table as it was.
C11_GetOrdersExactFilter ==
    [][(go_response'.returned /\ go_response'.query = "ok"
           /\ go_request'.limit = 0 /\ go_request'.offset = 0) =>
          /\ {go_response'.orders[i].order_id : i \in 1..Len(go_response'.orders)}
                 = RequestedOrderIds(go_orders, go_request')
          /\ go_response'.total_count = Cardinality(RequestedOrderIds(go_orders, go_request'))
          /\ go_orders' = go_orders]_vars

(***************************************************************************)
(* Properties of the sniper registry                                       *)
(***************************************************************************)
\* the StartSniper call that generated id has started
Started(id) == sn_start[id].pc # "none"

\* the input constraint of StartSniper, stated on the request itself
StartWalletInvalid(id) == ~WellFormedAddress(sn_start[id].request.wallet_address)

NotRegistered(id) ==
    /\ id \notin active_snipers
    /\ sniper_config[id] = NoSniper

Stopped(id) ==
    /\ sniper_config[id].exists
    /\ id \notin active_snipers

\* the step is the answer of a StopSniper, AddTargetToken or RemoveTargetToken
RpcStep == sn_rpc = NoRpc /\ sn_rpc' # NoRpc

\* C13: StopSniper on a registered id sets the session's is_running to false
\* and removes it from the active map, changing no snipe record; from then on
\* the id stays unknown, and StopSniper, AddTargetToken and RemoveTargetToken on
\* it fail with "Sniper not found" and change no registry state.
C13_StopSniperForgetsSession ==
    [][\A id \in SniperIds :
          /\ (id \in active_snipers /\ RpcStep /\ sn_rpc'.rpc = "StopSniper"
                 /\ sn_rpc'.sniper_id = id) =>
                /\ sn_rpc'.success
                /\ ~sniper_config'[id].is_running
                /\ id \notin active_snipers'
                /\ snipe_records' = snipe_records
          /\ Stopped(id) => Stopped(id)'
          /\ (Stopped(id) /\ RpcStep /\ sn_rpc'.sniper_id = id) =>
                /\ ~sn_rpc'.success
                /\ sn_rpc'.message = "Sniper not found"
                /\ active_snipers' = active_snipers
                /\ sniper_config' = sniper_config
                /\ snipers_table' = snipers_table]_vars

\* an AddTargetToken on a stopped session has been answered "Sniper not found"
C13_Witness ==
    /\ sn_rpc.rpc = "AddTargetToken"
    /\ sn_rpc.sniper_id \in SniperIds
    /\ Stopped(sn_rpc.sniper_id)
    /\ ~sniper_config[sn_rpc.sniper_id].is_running
    /\ sn_rpc.message = "Sniper not found"

\* C14: the target-token collection of every sniper session contains no token
\* mint more than once.
C14_TargetTokensUnique ==
    \A id \in SniperIds :
        sniper_config[id].exists =>
            \A i, j \in 1..Len(sniper_config[id].target_tokens) :
                sniper_config[id].target_tokens[i] = sniper_config[id].target_tokens[j]
                    => i = j

\* C15: every token mint in a live sniper session's target collection is a
\* valid mint address, whether it came with StartSniper or with AddTargetToken.
C15_TargetTokensValidated ==
    \A id \in active_snipers :
        \A i \in 1..Len(sniper_config[id].target_tokens) :
            WellFormedAddress(sniper_config[id].target_tokens[i])

(***************************************************************************)
(* Properties of the scanning task and the sell monitor                    *)
(***************************************************************************)
\* C16: the opportunity predicate answers true exactly when the metadata
\* carries a liquidity of at least 1000, carries the verified mark, and carries
\* a honeypot flag that is not set; a token failing one of the three, or
\* lacking one of the three fields, is rejected.
C16_OpportunityPredicate ==
    scan.checked =>
        (scan.good <=>
            /\ "liquidity" \in DOMAIN scan.token_info
            /\ "is_verified" \in DOMAIN scan.token_info
            /\ "is_honeypot" \in DOMAIN scan.token_info
            /\ scan.token_info["liquidity"] >= MinLiquidity
            /\ scan.token_info["is_verified"]
            /\ ~scan.token_info["is_honeypot"])

\* the sell monitor sold, and every read and write of _execute_sell succeeded
SellCompleted ==
    /\ monitor.pc = "done"
    /\ monitor.tx = "success"
    /\ monitor.read = "ok"
    /\ monitor.update = "ok"

\* C17: when the sell swap of a sell monitor succeeded, the matching snipe
\* record carries the sell price, the sell signature and the realized profit,
\* and the session's total_profit has grown by (sell_price - buy_price) x the
\* amount of the position (0.6 x the position value for a sale at 1.6 x the
\* buy price).
C17_SellFinalizesRecord ==
    SellCompleted =>
        \E i \in 1..Len(snipe_records) :
            LET row == snipe_records[i]
                realized == (monitor.sell_price - row.buy_price) * row.buy_amount
            IN /\ row.sniper_id = monitor.sniper_id
               /\ row.token_mint = monitor.token_mint
               /\ row.sell_price = monitor.sell_price
               /\ row.sell_signature = monitor.signature
               /\ row.profit = realized
               /\ sniper_config[monitor.sniper_id].total_profit
                     = monitor.profit_before + realized

(***************************************************************************)
(* Properties of the copy-trade monitoring task                            *)
(***************************************************************************)
\* the task has submitted a replication and awaits its swap or its record
Replicating(task) == task.pc \in {"swap", "record"}

\* C18: a source trade whose timestamp is less than or equal to the
\* session's last_trade_time is never replicated: whenever a replication is
\* submitted or in flight, its trade is newer than last_trade_time.
C18_OldTradeNeverReplicated ==
    [][Replicating(copy_task') =>
          /\ copy_task'.trade.timestamp > copy_config'.last_trade_time
          /\ (~Replicating(copy_task) =>
                 Head(copy_task.batch).timestamp > copy_config.last_trade_time)]_vars

\* after a successful copy, a trade not newer than last_trade_time has been
\* judged and turned down before the rate check
C18_Witness ==
    /\ copy_task.decision.made
    /\ copy_config.copied_trades >= 1
    /\ copy_task.decision.last_trade_time >= ClockStart
    /\ copy_task.decision.trade.timestamp <= copy_task.decision.last_trade_time
    /\ ~copy_task.decision.result
    /\ copy_task.pc = "loop"

\* C19: with last-trade time T and cap C, a (new) trade judged at a time
\* >= T + 3600 is admitted by the rate check, with trades_this_hour reset to 0,
\* even if trades_this_hour equals C; a trade judged at a time < T + 3600 with
\* trades_this_hour = C is rejected and not replicated.
C19_HourlyCapWindow ==
    LET d == copy_task.decision
    IN (d.made /\ d.rate # "not_reached") =>
          /\ d.current_time >= d.last_trade_time + HourSeconds =>
                /\ d.rate = "admitted"
                /\ copy_config.trades_this_hour = 0
          /\ (d.current_time < d.last_trade_time + HourSeconds
                 /\ d.trades_this_hour = d.max_trades_per_hour) =>
                /\ d.rate = "rejected"
                /\ ~d.result
                /\ ~Replicating(copy_task)

\* one hour after a copy that used up the cap, a new trade has been admitted
\* and is being replicated
C19_Witness ==
    LET d == copy_task.decision
    IN /\ d.made
       /\ d.last_trade_time >= ClockStart
       /\ d.current_time = d.last_trade_time + HourSeconds
       /\ d.max_trades_per_hour > 0
       /\ d.trades_this_hour = d.max_trades_per_hour
       /\ d.rate = "admitted"
       /\ copy_task.pc = "swap"

Min(a, b) == IF a <= b THEN a ELSE b

\* C20: the amount submitted for a replicated trade is
\* min(original amount x allocation_percentage, max_position_size) of the
\* session at the time of the replication, and it is the amount recorded.
C20_CopyAmountIsCappedAllocation ==
    [][/\ (Replicating(copy_task') /\ ~Replicating(copy_task)) =>
             copy_task'.copy_amount =
                 Min(Head(copy_task.batch).amount * copy_config.allocation_percentage,
                     copy_config.max_position_size)
       /\ Len(copy_records') > Len(copy_records) =>
             copy_records'[Len(copy_records')].amount = copy_task.copy_amount]_vars

\* a trade whose allocated amount exceeds the position limit has been
\* submitted with the limit, and one below the limit with its allocation
C20_Witness ==
    /\ copy_task.pc = "record"
    /\ copy_task.trade.amount * copy_config.allocation_percentage
          > copy_config.max_position_size
    /\ copy_task.copy_amount = copy_config.max_position_size
    /\ \E i \in 1..Len(copy_records) :
          /\ copy_records[i].amount < copy_config.max_position_size
          /\ copy_records[i].amount > 0

\* the step on which the next trade of the batch is judged
Judged == copy_task.pc = "loop" /\ copy_task.batch # << >> /\ copy_task' # copy_task

\* the step that follows a swap that returned: the record and the statistics
SwapReturned == copy_task.pc = "record" /\ copy_task'.pc # "record"

\* C21: a source trade whose amount is below min_trade_amount is never
\* replicated and changes no counter; a newer trade with amount >=
\* min_trade_amount on a fresh session is replicated and, when its swap
\* succeeds, copied_trades becomes 1.
C21_MinTradeAmount ==
    [][/\ (Judged /\ Head(copy_task.batch).amount < copy_config.min_trade_amount) =>
             /\ ~Replicating(copy_task')
             /\ copy_config' = copy_config
       /\ (Judged /\ copy_config.copied_trades = 0
                  /\ copy_config.last_trade_time = 0
                  /\ Head(copy_task.batch).timestamp > 0
                  /\ Head(copy_task.batch).amount >= copy_config.min_trade_amount) =>
             Replicating(copy_task')
       /\ (SwapReturned /\ copy_config.copied_trades = 0
                        /\ execute_swap(copy_task.swap).success) =>
             copy_config'.copied_trades = 1]_vars

\* C22: every replication attempt whose swap returns writes exactly one
\* CopyTradeRecord with the matching success flag; on success copied_trades
\* and trades_this_hour increase by exactly 1 and last_trade_time advances
\* to the present; on failure the three are unchanged.
C22_RecordAndCountersPerAttempt ==
    [][SwapReturned =>
          LET success == execute_swap(copy_task.swap).success
          IN /\ Len(copy_records') = Len(copy_records) + 1
             /\ copy_records'[Len(copy_records')].success = success
             /\ IF success
                THEN /\ copy_config'.copied_trades = copy_config.copied_trades + 1
                     /\ copy_config'.trades_this_hour = copy_config.trades_this_hour + 1
                     /\ copy_config'.last_trade_time = clock.now
                     /\ copy_config'.last_trade_time > copy_config.last_trade_time
                ELSE /\ copy_config'.copied_trades = copy_config.copied_trades
                     /\ copy_config'.trades_this_hour = copy_config.trades_this_hour
                     /\ copy_config'.last_trade_time = copy_config.last_trade_time]_vars

(***************************************************************************)
(* Properties of the market data service                                   *)
(***************************************************************************)
FallbackOrder == <<"jupiter", "raydium", "solana">>

\* the GetTokenPrice call completes on this step
PriceCallCompletes == gtp.pc # "done" /\ gtp'.pc = "done"

\* C23: GetTokenPrice consults the cache first and on a hit queries no price
\* source; on a miss it queries the primary aggregator, then the secondary
\* aggregator, then the direct chain query, a later source only when every
\* earlier one failed; it caches a successful result, and it surfaces a
\* not-found error exactly when every source fails (no source has a price
\* for the token).
C23_PriceFallbackAndNotFound ==
    [][/\ gtp'.hit => gtp'.queried = << >>
       /\ \E n \in 0..3 : gtp'.queried = SubSeq(FallbackOrder, 1, n)
       /\ Len(gtp'.queried) >= 2 => "jupiter" \notin gtp'.known
       /\ Len(gtp'.queried) >= 3 => "raydium" \notin gtp'.known
       /\ (PriceCallCompletes /\ gtp'.outcome = "OK" /\ ~gtp'.hit) =>
             /\ price_cache' = gtp'.fetched
             /\ gtp'.price = gtp'.fetched.price
       /\ PriceCallCompletes =>
             (gtp'.outcome = "NOT_FOUND"
                <=> (gtp'.queried = FallbackOrder /\ gtp'.known = {}))]_vars

Streaming(stream) == stream.pc \in {"fetch", "yield", "sleep"}

\* C25: SubscribeToPriceUpdates registers the caller's context under its
\* subscription key and removes it on every exit path (caller gone, service
\* stopped, cancellation or error while fetching or emitting); once the
\* service is stopped or the caller inactive no new round begins: the
\* interval in progress is the last one, and no ended subscription remains
\* in price_subscribers.
C25_SubscriptionRegisteredUntilEnd ==
    [][\A c \in Streams :
          /\ Streaming(sub'[c]) =>
                price_subscribers'.has_key /\ InList(c, price_subscribers'.contexts)
          /\ ~Streaming(sub'[c]) => ~InList(c, price_subscribers'.contexts)
          /\ (sub[c].pc # "fetch" /\ sub'[c].pc = "fetch") => Serving(c)
          /\ (sub[c].pc = "sleep" /\ sub'[c].pc # "sleep" /\ ~Serving(c)) =>
                sub'[c].pc = "ended"]_vars

\* after the service stopped, one stream that had emitted a price has ended
\* and left the list, where the other stream still is
C25_Witness ==
    /\ ~md_running
    /\ sub["s1"].pc = "ended"
    /\ sub["s1"].emitted = 1
    /\ sub["s2"].pc = "sleep"
    /\ price_subscribers.contexts = <<"s2">>

\* C24: a status or lookup request for an unknown id (GetSniperStatus, and
\* likewise GetCopyTradeStatus and GetOrder) completes with a NOT_FOUND
\* outcome, never with an INTERNAL error and never with a success response.
C24_UnknownIdIsNotFound ==
    (status_rpc.rpc = "GetSniperStatus" /\ ~status_rpc.registered) =>
        status_rpc.outcome = "NOT_FOUND"

\* C26: whenever a cache entry exists for an order, it carries the same
\* status, executed price, executed amount and signature as the order's
\* persisted row, for every outcome of the database and cache writes and
\* every interleaving of the order RPCs.
C26_CacheMirrorsRow ==
    \A id \in OrderIds :
        cache[id].status # ABSENT =>
            /\ db[id].status # ABSENT
            /\ cache[id].status = db[id].status
            /\ cache[id].executed_price = db[id].executed_price
            /\ cache[id].executed_amount = db[id].executed_amount
            /\ cache[id].signature = db[id].signature

(***************************************************************************)
(* Properties of the sniper's tasks under StopSniper and service stop      *)
(***************************************************************************)
\* the session's flag has been cleared by StopSniper
SessionStopped(id) == sniper_config[id].exists /\ ~sniper_config[id].is_running

\* the monitor task initiates a sell swap, or asks for another price, on
\* this step
SellInitiated == monitor.pc # "sell_swap" /\ monitor'.pc = "sell_swap"
PriceRequested == monitor.pc # "price_wait" /\ monitor'.pc = "price_wait"

\* C27: after StopSniper has returned for a session, the session's
\* sell-monitor task initiates no sell swap and starts no further round
\* (it ends when the call it is suspended on returns).
C27_StoppedSessionSellsNothing ==
    [][(monitor.pc # "none" /\ SessionStopped(monitor.sniper_id)) =>
          /\ ~SellInitiated
          /\ ~PriceRequested
          /\ monitor.pc = "price" => monitor'.pc \in {"price", "done"}]_vars

\* the session was stopped while its monitor waited for a price; the price
\* then reached the profit target and the monitor ended without a swap
C27_Witness ==
    /\ monitor.pc = "done"
    /\ SessionStopped(monitor.sniper_id)
    /\ monitor.reason = "profit"
    /\ monitor.sell_price * 100 >=
          monitor.buy_price * (100 + sniper_config[monitor.sniper_id].profit_target)
    /\ monitor.tx = "none"

\* C28: after SniperService.stop (running cleared, scan task cancelled) the
\* scan loop and every sell-monitor task leave their loops and the sniper
\* engine initiates no swap.
C28_ServiceStopEndsTasks ==
    [][~sn_running =>
          /\ ~SellInitiated
          /\ ~PriceRequested
          /\ ~(scan.pc # "swap" /\ scan'.pc = "swap")
          /\ scan'.pc \in {"cancelled"}]_vars

(***************************************************************************)
(* Properties of the scan loop                                             *)
(***************************************************************************)
\* a scan cycle comes to its end on this step
CycleEnds ==
    /\ cycle'.pc \in {"sleep", "ended"}
    /\ ~cycle'.cancelled
    /\ cycle.pc = "check" \/ cycle'.cycles # cycle.cycles

\* C29: a StartSniper or StopSniper handled while a scan cycle is suspended
\* on a network call never makes the cycle fail or skip sessions: every
\* session registered and running throughout the cycle is processed in it.
C29_CycleSurvivesRegistryChange ==
    [][CycleEnds =>
          /\ ~cycle'.failed
          /\ (cycle'.at_start \cap active_snipers') \subseteq cycle'.seen]_vars

\* C30: an exception raised inside a scan cycle never terminates the scan
\* loop: the loop ends only through service stop and the cancellation of
\* its task, and after a failed cycle the loop sleeps and, while the service
\* runs, is ready for another cycle.
C30_ScanLoopSurvivesFailedCycle ==
    [][/\ cycle'.pc = "ended" => (~sn_running' /\ cycle'.cancelled)
       /\ (cycle'.failed /\ ~cycle.failed) => cycle'.pc = "sleep"
       /\ (cycle'.pc = "sleep" /\ cycle'.cycles < MaxCycles) => sn_running']_vars

\* a cycle failed, and the same loop has run a later cycle to its end
C30_Witness ==
    /\ cycle.failures >= 1
    /\ ~cycle.failed
    /\ cycle.cycles >= 2
    /\ cycle.pc = "sleep"
    /\ sn_running

\* the price p of the monitor's last fetch lies at or beyond one of the two
\* thresholds of the position
ThresholdCrossed(m, cfg) ==
    \/ m.sell_price * 100 >= m.buy_price * (100 + cfg.profit_target)
    \/ m.sell_price * 100 <= m.buy_price * (100 - cfg.stop_loss)

\* C31: a sell monitor initiates a sell only after it fetched a current
\* price p with p >= buy_price x (1 + profit_target) or p <= buy_price x
\* (1 - stop_loss); a fetch that failed (price source unavailable) starts no
\* sell, and the monitor goes on polling.
C31_SellOnlyOnFetchedThreshold ==
    [][(monitor.pc = "price_wait" /\ monitor'.pc # "price_wait") =>
          /\ SellInitiated =>
                /\ monitor'.fetch = "price"
                /\ ThresholdCrossed(monitor', sniper_config[monitor.sniper_id])
          /\ monitor'.fetch = "unavailable" => monitor'.pc = "price"]_vars

\* the rows of snipe_records that a step rewrites
UpdatedRecords ==
    {i \in 1..Len(snipe_records) : snipe_records'[i] # snipe_records[i]}

\* C32: each successful sell updates exactly one snipe record, the open
\* record (sell price still null) of the position that is sold, and no
\* record is updated a second time, whatever buys (successful or failed)
\* of the same session and token went before.
C32_SellUpdatesOneOpenRecord ==
    [][(monitor.pc = "update" /\ monitor'.update = "ok") =>
          /\ Cardinality(UpdatedRecords) = 1
          /\ \A i \in UpdatedRecords :
                /\ snipe_records[i].sell_price = NULL
                /\ snipe_records[i].success
                /\ snipe_records[i].sniper_id = monitor.sniper_id
                /\ snipe_records[i].token_mint = monitor.token_mint]_vars

\* the scan task returns from the INSERT that follows a completed buy swap
BuyRecorded == scan.pc = "record" /\ scan'.pc = "idle"

\* C33: for every buy swap the scan loop completes for a session, exactly
\* one snipe record is written and exactly one of the session's counters
\* successful_snipes / failed_snipes grows by exactly 1 (the success counter
\* if and only if the swap succeeded), whatever StopSniper does in between
\* and whatever the record write answers.
C33_BuyRecordedAndCounted ==
    [][BuyRecorded =>
          LET id == scan.sniper_id
              succeeded == execute_swap(scan.swap).success
          IN /\ Len(snipe_records') = Len(snipe_records) + 1
             /\ snipe_records'[Len(snipe_records')].success = succeeded
             /\ sniper_config'[id].successful_snipes =
                   sniper_config[id].successful_snipes + (IF succeeded THEN 1 ELSE 0)
             /\ sniper_config'[id].failed_snipes =
                   sniper_config[id].failed_snipes + (IF succeeded THEN 0 ELSE 1)]_vars

\* the monitoring task hands a trade to execute_swap
Submitted == copy_task.pc # "swap" /\ copy_task'.pc = "swap"

\* C34: a source-wallet trade (known by its timestamp) is submitted to the
\* chain at most once per session, whether the attempt succeeds or fails: a
\* trade that has a record, of a success or of a failure, is not submitted
\* again in a later monitor cycle.
C34_TradeSubmittedOnce ==
    [][Submitted =>
          ~\E i \in 1..Len(copy_records) :
              copy_records[i].timestamp = copy_task'.trade.timestamp]_vars

\* the scan task hands a buy to execute_swap on this step
BuyInitiated == scan.pc # "swap" /\ scan'.pc = "swap"

\* C35: after StopSniper has returned for a session, no buy swap is
\* initiated for that session, also when the stop was handled while the
\* scan cycle was suspended part-way through the session's targets.
C35_StoppedSessionBuysNothing ==
    [][BuyInitiated => ~SessionStopped(scan'.sniper_id)]_vars

\* the inner loop went on to the second target of a session that had been
\* stopped in the meantime, found a good opportunity and sent no swap
C35_Witness ==
    /\ scan.pc = "idle"
    /\ scan.tok = 2
    /\ ~scan.registered
    /\ SessionStopped(scan.sniper_id)
    /\ scan.checked
    /\ scan.good
    /\ scan.swap = "none"

\* RemoveTraderToCopy has answered success for the session: its flag is
\* cleared and its key is still in the registry
TraderRemoved == 1 \in active_copy_traders /\ ~copy_config.is_running

\* C36: after RemoveTraderToCopy has returned success for a session, no
\* further trade is replicated for it, the remaining trades of a batch the
\* monitoring task had already fetched included.
C36_RemovedSessionCopiesNothing ==
    [][TraderRemoved => ~Submitted]_vars

\* the successful replications recorded in the 3600 time units that begin
\* with the i-th record
CopiedInWindowFrom(i) ==
    {j \in 1..Len(copy_records) :
        /\ copy_records[j].success
        /\ copy_records[j].copied_at >= copy_records[i].copied_at
        /\ copy_records[j].copied_at < copy_records[i].copied_at + HourSeconds}

\* C37: for every cap C >= 0 of a session (max_trades_per_hour),
\* trades_this_hour never exceeds C, and no window of 3600 time units holds
\* more than C successfully replicated trades.
C37_HourlyCapNeverExceeded ==
    /\ copy_config.trades_this_hour <= copy_config.max_trades_per_hour
    /\ \A i \in 1..Len(copy_records) :
          copy_records[i].success =>
             Cardinality(CopiedInWindowFrom(i)) <= copy_config.max_trades_per_hour

\* C38: when one fetch returns several trades that are all newer than the
\* session's last-copied timestamp (as it was at the fetch) and pass the cap
\* and the minimum amount, each of them is replicated: none is dropped
\* because an earlier trade of the batch was copied first.
C38_WholeBatchReplicated ==
    [][(/\ Judged
        /\ 1 \in active_copy_traders
        /\ Head(copy_task.batch).timestamp > copy_task.last_at_fetch
        /\ Head(copy_task.batch).amount >= copy_config.min_trade_amount
        /\ copy_config.trades_this_hour < copy_config.max_trades_per_hour) =>
          Replicating(copy_task')]_vars

\* the session holds a bought and unsold position of the token
OpenPosition(id, token_mint) ==
    \E i \in 1..Len(snipe_records) :
        /\ snipe_records[i].sniper_id = id
        /\ snipe_records[i].token_mint = token_mint
        /\ snipe_records[i].success
        /\ snipe_records[i].sell_price = NULL

\* C39: a session holds at most one open position per target token: while
\* a bought position of a token is unsold, the scan loop initiates no
\* further buy of that token for the session, and a sell-monitor task of a
\* session and token has no second task beside it.
C39_OnePositionPerToken ==
    [][/\ BuyInitiated => ~OpenPosition(scan'.sniper_id, scan'.token_mint)
       /\ \A k \in 1..Len(monitor'.others) :
             ~(/\ monitor'.others[k].sniper_id = monitor'.sniper_id
               /\ monitor'.others[k].token_mint = monitor'.token_mint
               /\ monitor'.pc \notin {"none", "done"})]_vars

\* C40: in every reachable state every session present in the sniper
\* registry or in the copy-trade registry has is_running = true: a session
\* that is not running is not registered, whatever start, stop, add and
\* remove requests were served.
C40_RegisteredSessionsRun ==
    /\ \A id \in active_snipers : sniper_config[id].is_running
    /\ 1 \in active_copy_traders => copy_config.is_running

====
